---------------------------- MODULE Spec2Model ----------------------------
(***************************************************************************)
(* Tax GPT (llm-tax-assistant): the chunker and the retriever of the       *)
(* knowledge base, the session store with its asynchronous persistence,    *)
(* and the streaming renderer driven by the interactive loop.              *)
(*                                                                         *)
(* A JavaScript string is a sequence of one-character strings.             *)
(***************************************************************************)
EXTENDS Integers, Sequences, FiniteSets, TLC

(***************************************************************************)
(* Bounds of the model.                                                    *)
(***************************************************************************)
MaxTextLen == 7
MaxChunkSize == 3
MaxChunks == 3
MaxRelevant == 2
MaxTurns == 1
MaxCommands == 2
MaxFailures == 1
MaxRestarts == 1
MaxSeconds == 1
MaxPending == 2
MaxHistoryTurns == 25
MaxHistoryPending == 1
MaxSessionTurns == 2
MaxSessionCommands == 1
MaxSessionPending == 1
MaxDeltas == 3
MaxStreamTurns == 1
MaxStreamPending == 1
MaxTableLines == 3
MaxRenderPending == 1
MaxCount == 3
MaxManagerTurns == 2
MaxManagerCalls == 1
MaxManagerCommands == 1
MaxManagerPending == 1
MaxShutdownTurns == 1
MaxShutdownFailures == 1
MaxShutdownPending == 2

(***************************************************************************)
(* Program constants.                                                      *)
(***************************************************************************)
MAX_HISTORY_TURNS == 10

VARIABLES
    knowledgeBase,  \* TaxGPT.knowledgeBase: the text of the knowledge base
    chunkSize,      \* the chunkSize argument of createChunks
    chunks,         \* TaxGPT.chunks
    kbLoaded,       \* whether loadKnowledgeBase has run
    asked,          \* whether findRelevantChunks has been called
    query,          \* the query of the findRelevantChunks call
    maxChunks,      \* its maxChunks argument
    scored,         \* its local array scored: each chunk with its score
    relevant,       \* what that call returned
    pc,             \* where the process is: start, saving, welcome, asking,
                    \* streaming, starter, prompt, goodbye, exiting, exited
    resume,         \* where it goes on after the await it is in
    currentSession, \* SessionManager.currentSession
    sessions,       \* SessionManager.sessions
    disk,           \* the session files: id -> content of <id>.json
    pending,        \* the fs.writeFile calls that have not completed
    now,            \* the clock that new Date() reads
    env,            \* what the user and the completion service may still do
    stream,         \* the deltas of the response that have not arrived
    fullContent,    \* streamResponse: fullContent
    lines,          \* streamResponse: lines
    currentLine,    \* streamResponse: currentLine
    sink,           \* what streamResponse wrote to stdout for this response
    appended,       \* the messages passed to addMessage since the current
                    \* session was created, and whether it is as fresh as
                    \* that: neither loaded nor cleared
    arrived,        \* the deltas of the response that have arrived
    saved,          \* id -> the session an awaited saveSession wrote, while
                    \* the file is as that save left it
    loaded,         \* the last loadSession: what saved held, what it returned
    question,       \* the question askQuestion is called with, and whether
                    \* addMessage stored it before the call
    request,        \* what askQuestion last sent to the completion service
    recent,         \* the last getRecentMessages call made on its own: its
                    \* count and what it returned
    deleted,        \* the last deleteSession: its id, whether that was the
                    \* current session, and what it returned
    shutdownInProgress, \* index.js: shutdownInProgress
    escapeCount,    \* index.js: escapeCount
    exitStatus,     \* the status process.exit was called with
    before,         \* the messages of the session when the turn at hand began
    shown           \* what printError last wrote to stdout

kbVars == <<knowledgeBase, chunkSize, chunks, kbLoaded, asked, query, maxChunks,
            scored, relevant>>

streamVars == <<stream, fullContent, lines, currentLine, sink, arrived>>

storeVars == <<currentSession, sessions, disk, pending, now, appended, saved, loaded>>

askVars == <<question, request>>

callVars == <<recent, deleted>>

exitVars == <<shutdownInProgress, escapeCount, exitStatus>>

turnVars == <<before, shown>>

vars == <<kbVars, pc, resume, env, streamVars, storeVars, askVars, callVars, exitVars,
          turnVars>>

(***************************************************************************)
(* Strings.                                                                *)
(***************************************************************************)
NL == "\n"
SP == " "

\* String.prototype.trim and the regular expression class \s, on the
\* alphabet of the model.
IsSpace(c) == c \in {SP, NL}

Min(a, b) == IF a < b THEN a ELSE b
Max(a, b) == IF a > b THEN a ELSE b

\* s.slice(from - 1): the characters of s from position from (1-based) on.
Drop(s, n) == SubSeq(s, n + 1, Len(s))
Take(s, n) == SubSeq(s, 1, n)

\* s.startsWith(p, at - 1)
StartsWithAt(s, p, at) ==
    /\ at + Len(p) - 1 <= Len(s)
    /\ \A k \in 1..Len(p) : s[at + k - 1] = p[k]

\* s.includes(p)
Includes(s, p) == \E at \in 1..(Len(s) + 1) : StartsWithAt(s, p, at)

RECURSIVE TrimStart(_)
TrimStart(s) ==
    IF s # <<>> /\ IsSpace(Head(s)) THEN TrimStart(Tail(s)) ELSE s

RECURSIVE TrimEnd(_)
TrimEnd(s) ==
    IF s # <<>> /\ IsSpace(s[Len(s)]) THEN TrimEnd(Take(s, Len(s) - 1)) ELSE s

\* s.trim()
Trim(s) == TrimEnd(TrimStart(s))

\* s.split(sep) for a non-empty separator: the pieces between the
\* occurrences of sep, found left to right without overlap.
RECURSIVE SplitFrom(_, _, _)
SplitFrom(s, sep, piece) ==
    IF s = <<>> THEN <<piece>>
    ELSE IF StartsWithAt(s, sep, 1)
         THEN <<piece>> \o SplitFrom(Drop(s, Len(sep)), sep, <<>>)
         ELSE SplitFrom(Tail(s), sep, Append(piece, Head(s)))

Split(s, sep) == SplitFrom(s, sep, <<>>)

\* parts.join(sep)
RECURSIVE Join(_, _)
Join(parts, sep) ==
    IF parts = <<>> THEN <<>>
    ELSE IF Len(parts) = 1 THEN parts[1]
    ELSE parts[1] \o sep \o Join(Tail(parts), sep)

\* All strings over an alphabet, up to a length.
RECURSIVE StringsUpTo(_, _)
StringsUpTo(alphabet, n) ==
    IF n = 0 THEN {<<>>}
    ELSE LET shorter == StringsUpTo(alphabet, n - 1)
         IN  shorter \cup {Append(s, c) : s \in {t \in shorter : Len(t) = n - 1},
                                          c \in alphabet}

(***************************************************************************)
(* The process before main has run: the SessionManager as its constructor  *)
(* leaves it, no file written, no response being streamed.                 *)
(***************************************************************************)
\* this.currentSession = null
NoSession == [null |-> TRUE]

\* No loadSession has been called yet.
NoLoad == [null |-> TRUE]

\* An empty sessions directory; an empty map from ids.
EmptyDir == [id \in {} |-> <<>>]

\* No message has been passed to addMessage.
NothingAppended == [fresh |-> TRUE, messages |-> <<>>]

\* The clock: seconds, and the milliseconds within the second.
StartOfTime == [sec |-> 0, ms |-> 0]

NoQuestion == [null |-> TRUE]
NoRequest == [null |-> TRUE]
NoCall == [null |-> TRUE]
NoExit == [null |-> TRUE]
NothingShown == [null |-> TRUE]

Constructed ==
    /\ pc = "start"
    /\ resume = "start"
    /\ currentSession = NoSession
    /\ sessions = <<>>
    /\ pending = {}
    /\ stream = <<>>
    /\ fullContent = <<>>
    /\ lines = <<>>
    /\ currentLine = <<>>
    /\ sink = <<>>
    /\ appended = NothingAppended
    /\ arrived = <<>>
    /\ saved = EmptyDir
    /\ loaded = NoLoad
    /\ question = NoQuestion
    /\ request = NoRequest
    /\ recent = NoCall
    /\ deleted = NoCall
    /\ shutdownInProgress = FALSE
    /\ escapeCount = 0
    /\ exitStatus = NoExit
    /\ before = <<>>
    /\ shown = NothingShown

\* A user who types nothing and a service that is never called.
IdleEnv ==
    [turns |-> 0, commands |-> 0, failures |-> 0, restarts |-> 0, seconds |-> 0,
     calls |-> 0, maxPending |-> 0, questions |-> {}, names |-> {}, replies |-> {}]

ProcessNotStarted ==
    /\ Constructed
    /\ now = StartOfTime
    /\ disk = EmptyDir
    /\ env = IdleEnv

(***************************************************************************)
(* The chunker: TaxGPT.createChunks.                                       *)
(***************************************************************************)
PARA == <<NL, NL>>

\* ChunkStep with the flush forgetting the paragraph at hand.
ChunkStepDropsParagraph(st, para, size) ==
    IF Len(st.currentChunk) + Len(para) > size /\ Len(st.currentChunk) > 0
    THEN [chunks |-> Append(st.chunks, Trim(st.currentChunk)),
          currentChunk |-> <<>>]
    ELSE [chunks |-> st.chunks,
          currentChunk |-> st.currentChunk \o PARA \o para]

\* One pass of the for loop: st is [chunks, currentChunk].
ChunkStep(st, para, size) ==
    IF Len(st.currentChunk) + Len(para) > size /\ Len(st.currentChunk) > 0
    THEN [chunks |-> Append(st.chunks, Trim(st.currentChunk)),
          currentChunk |-> para]
    ELSE [chunks |-> st.chunks,
          currentChunk |-> st.currentChunk \o PARA \o para]

RECURSIVE ChunkLoop(_, _, _)
ChunkLoop(st, paragraphs, size) ==
    IF paragraphs = <<>> THEN st
    ELSE ChunkLoop(ChunkStep(st, Head(paragraphs), size), Tail(paragraphs), size)

createChunks(text, size) ==
    LET paragraphs == Split(text, PARA)
        st == ChunkLoop([chunks |-> <<>>, currentChunk |-> <<>>], paragraphs, size)
    IN  IF Trim(st.currentChunk) # <<>>
        THEN Append(st.chunks, Trim(st.currentChunk))
        ELSE st.chunks

(***************************************************************************)
(* TaxGPT.loadKnowledgeBase, called once by main: chunks the text of the    *)
(* knowledge base file.  The text and the chunk size are the inputs of     *)
(* createChunks.                                                           *)
(***************************************************************************)
TextAlphabet == {"a", "b", SP, NL}
Texts == StringsUpTo(TextAlphabet, MaxTextLen)

LoadKnowledgeBase ==
    /\ ~kbLoaded
    /\ chunks' = createChunks(knowledgeBase, chunkSize)
    /\ kbLoaded' = TRUE
    /\ UNCHANGED <<knowledgeBase, chunkSize, asked, query, maxChunks, scored, relevant>>
    /\ UNCHANGED <<pc, resume, env, streamVars, storeVars, askVars, callVars, exitVars,
                   turnVars>>

InitChunker ==
    /\ knowledgeBase \in Texts
    /\ chunkSize \in 1..MaxChunkSize
    /\ chunks = <<>>
    /\ kbLoaded = FALSE
    /\ asked = FALSE
    /\ query = <<>>
    /\ maxChunks = 0
    /\ scored = <<>>
    /\ relevant = <<>>
    /\ ProcessNotStarted

NextChunker == LoadKnowledgeBase

SpecChunker == InitChunker /\ [][NextChunker]_vars

Paragraphs == Split(knowledgeBase, PARA)

\* C5 (as claimed): no chunk is longer than chunkSize, unless it consists of
\* a single paragraph that is itself longer than chunkSize.
C5_ChunkWithinSize ==
    kbLoaded =>
    \A i \in DOMAIN chunks :
        \/ Len(chunks[i]) <= chunkSize
        \/ \E k \in DOMAIN Paragraphs :
              /\ Len(Paragraphs[k]) > chunkSize
              /\ chunks[i] = Trim(Paragraphs[k])

\* The groups of consecutive paragraphs cut after the positions in cuts.
RECURSIVE GroupsFrom(_, _, _, _)
GroupsFrom(paras, cuts, k, group) ==
    IF k > Len(paras) THEN (IF group = <<>> THEN <<>> ELSE <<group>>)
    ELSE IF k \in cuts
         THEN <<Append(group, paras[k])>> \o GroupsFrom(paras, cuts, k + 1, <<>>)
         ELSE GroupsFrom(paras, cuts, k + 1, Append(group, paras[k]))

RECURSIVE NonEmpty(_)
NonEmpty(ss) ==
    IF ss = <<>> THEN <<>>
    ELSE IF Head(ss) = <<>> THEN NonEmpty(Tail(ss))
    ELSE <<Head(ss)>> \o NonEmpty(Tail(ss))

RECURSIVE Concat(_)
Concat(ss) == IF ss = <<>> THEN <<>> ELSE Head(ss) \o Concat(Tail(ss))

RECURSIVE StripSpace(_)
StripSpace(s) ==
    IF s = <<>> THEN <<>>
    ELSE IF IsSpace(Head(s)) THEN StripSpace(Tail(s))
    ELSE <<Head(s)>> \o StripSpace(Tail(s))

\* C6: the chunks are the paragraphs of the text, grouped in order: there
\* is a way of cutting the paragraph sequence into consecutive groups such
\* that the non-empty chunks are exactly the groups, each joined by the
\* paragraph delimiter and trimmed (no paragraph split, dropped, duplicated
\* or reordered), and the chunks concatenated are the text up to whitespace.
C6_ChunksAreParagraphGroups ==
    kbLoaded =>
    /\ \E cuts \in SUBSET (1..(Len(Paragraphs) - 1)) :
          LET groups == GroupsFrom(Paragraphs, cuts, 1, <<>>)
          IN  NonEmpty(chunks) =
                 NonEmpty([g \in DOMAIN groups |-> Trim(Join(groups[g], PARA))])
    /\ StripSpace(Concat(chunks)) = StripSpace(knowledgeBase)

\* C6's case: two chunks, one of them made of two whole paragraphs.
C6_Witness ==
    /\ kbLoaded
    /\ Len(chunks) >= 2
    /\ \E i \in DOMAIN chunks : Includes(chunks[i], PARA)

(***************************************************************************)
(* The retriever: TaxGPT.findRelevantChunks.                               *)
(***************************************************************************)
UPPERCASE == <<"A", "B", "C", "D", "E", "F", "G", "H", "I", "J", "K", "L", "M", "N", "O", "P", "Q", "R", "S", "T", "U", "V", "W", "X", "Y", "Z">>
LOWERCASE == <<"a", "b", "c", "d", "e", "f", "g", "h", "i", "j", "k", "l", "m", "n", "o", "p", "q", "r", "s", "t", "u", "v", "w", "x", "y", "z">>

\* String.prototype.toLowerCase, one character.
LowerChar(c) ==
    IF \E i \in DOMAIN UPPERCASE : UPPERCASE[i] = c
    THEN LOWERCASE[CHOOSE i \in DOMAIN UPPERCASE : UPPERCASE[i] = c]
    ELSE c

toLowerCase(s) == [i \in DOMAIN s |-> LowerChar(s[i])]

\* s.split(/\s+/): the pieces between the maximal runs of whitespace.
RECURSIVE SplitSpacesFrom(_, _)
SplitSpacesFrom(s, piece) ==
    IF s = <<>> THEN <<piece>>
    ELSE IF IsSpace(Head(s))
         THEN <<piece>> \o SplitSpacesFrom(TrimStart(s), <<>>)
         ELSE SplitSpacesFrom(Tail(s), Append(piece, Head(s)))

SplitSpaces(s) == SplitSpacesFrom(s, <<>>)

\* LongWords with the length test off by one (w.length >= 3).
RECURSIVE LongWordsFromThree(_)
LongWordsFromThree(words) ==
    IF words = <<>> THEN <<>>
    ELSE IF Len(Head(words)) >= 3
         THEN <<Head(words)>> \o LongWordsFromThree(Tail(words))
    ELSE LongWordsFromThree(Tail(words))

\* words.filter(w => w.length > 3)
RECURSIVE LongWords(_)
LongWords(words) ==
    IF words = <<>> THEN <<>>
    ELSE IF Len(Head(words)) > 3 THEN <<Head(words)>> \o LongWords(Tail(words))
    ELSE LongWords(Tail(words))

TABLE == <<"T", "a", "b", "l", "e">>
DOLLAR == <<"$">>

\* for (const kw of keywords) if (chunkLower.includes(kw)) score += 2
RECURSIVE KeywordScore(_, _)
KeywordScore(chunkLower, keywords) ==
    IF keywords = <<>> THEN 0
    ELSE (IF Includes(chunkLower, Head(keywords)) THEN 2 ELSE 0)
         + KeywordScore(chunkLower, Tail(keywords))

\* The literal bonus: chunk.includes('Table') || chunk.includes('$')
LiteralBonus(chunk) ==
    IF Includes(chunk, TABLE) \/ Includes(chunk, DOLLAR) THEN 1 ELSE 0

\* ChunkScore without chunk.toLowerCase().
ChunkScoreCaseSensitive(chunk, queryLower, keywords) ==
    (IF Includes(chunk, queryLower) THEN 10 ELSE 0)
    + KeywordScore(chunk, keywords)
    + LiteralBonus(chunk)

\* The body of the map callback: the score of one chunk.
ChunkScore(chunk, queryLower, keywords) ==
    LET chunkLower == toLowerCase(chunk)
    IN  (IF Includes(chunkLower, queryLower) THEN 10 ELSE 0)
        + KeywordScore(chunkLower, keywords)
        + LiteralBonus(chunk)

\* InsertByScore as an unstable sort would do it: an item goes before the
\* items of equal score.
RECURSIVE InsertBeforeEqual(_, _)
InsertBeforeEqual(sorted, item) ==
    IF sorted = <<>> THEN <<item>>
    ELSE IF Head(sorted).score > item.score
         THEN <<Head(sorted)>> \o InsertBeforeEqual(Tail(sorted), item)
         ELSE <<item>> \o sorted

\* scored.sort((a, b) => b.score - a.score): Array.prototype.sort is stable;
\* an item goes after every item that does not score less.
RECURSIVE InsertByScore(_, _)
InsertByScore(sorted, item) ==
    IF sorted = <<>> THEN <<item>>
    ELSE IF Head(sorted).score >= item.score
         THEN <<Head(sorted)>> \o InsertByScore(Tail(sorted), item)
         ELSE <<item>> \o sorted

RECURSIVE SortByScore(_)
SortByScore(items) ==
    IF items = <<>> THEN <<>>
    ELSE InsertByScore(SortByScore(Take(items, Len(items) - 1)), items[Len(items)])

\* items.slice(0, end)
SliceTo(items, end) ==
    IF end < 0 THEN Take(items, Max(Len(items) + end, 0))
    ELSE Take(items, Min(end, Len(items)))

\* const scored = this.chunks.map((chunk, idx) => ...)
ScoreChunks(chunkSeq, q) ==
    LET queryLower == toLowerCase(q)
        keywords == LongWords(SplitSpaces(queryLower))
    IN  [i \in DOMAIN chunkSeq |->
            [chunk |-> chunkSeq[i],
             score |-> ChunkScore(chunkSeq[i], queryLower, keywords),
             idx |-> i - 1]]

findRelevantChunks(chunkSeq, q, maxN) ==
    LET top == SliceTo(SortByScore(ScoreChunks(chunkSeq, q)), maxN)
    IN  [i \in DOMAIN top |-> top[i].chunk]

(***************************************************************************)
(* askQuestion's call of findRelevantChunks: the chunks, the query and     *)
(* maxChunks are drawn from small pools.                                   *)
(***************************************************************************)
CHUNK_PHRASE == <<"s", "t", "a", "n", "d", "a", "r", "d", " ", "d", "e", "d", "u", "c", "t", "i", "o", "n">>
CHUNK_KEYWORD == <<"d", "e", "d", "u", "c", "t", "i", "o", "n", " ", "$", "5">>
CHUNK_RATE_TABLE == <<"T", "a", "x", " ", "R", "a", "t", "e", " ", "T", "a", "b", "l", "e">>
CHUNK_RATE_TABLE_LOWER == <<"t", "a", "x", " ", "r", "a", "t", "e", " ", "t", "a", "b", "l", "e">>
CHUNK_OTHER == <<"f", "o", "r", "m">>

ChunkPool == {CHUNK_PHRASE, CHUNK_KEYWORD, CHUNK_RATE_TABLE,
              CHUNK_RATE_TABLE_LOWER, CHUNK_OTHER}

QUERY_STANDARD_DEDUCTION == <<"s", "t", "a", "n", "d", "a", "r", "d", " ", "d", "e", "d", "u", "c", "t", "i", "o", "n">>
QUERY_RATE == <<"t", "a", "x", " ", "r", "a", "t", "e">>
QUERY_RATE_MIXED == <<"T", "a", "x", " ", "R", "a", "t", "e">>
QUERY_REPEATED == <<" ", "r", "a", "t", "e", " ", " ", "r", "a", "t", "e">>

QueryPool == {QUERY_STANDARD_DEDUCTION, QUERY_RATE, QUERY_RATE_MIXED,
              QUERY_REPEATED, <<>>}

RECURSIVE SeqsUpTo(_, _)
SeqsUpTo(S, n) ==
    IF n = 0 THEN {<<>>}
    ELSE LET shorter == SeqsUpTo(S, n - 1)
         IN  shorter \cup {Append(s, x) : s \in {t \in shorter : Len(t) = n - 1},
                                          x \in S}

FindRelevantChunks ==
    /\ kbLoaded
    /\ ~asked
    /\ asked' = TRUE
    /\ scored' = ScoreChunks(chunks, query)
    /\ relevant' = findRelevantChunks(chunks, query, maxChunks)
    /\ UNCHANGED <<knowledgeBase, chunkSize, chunks, kbLoaded, query, maxChunks>>
    /\ UNCHANGED <<pc, resume, env, streamVars, storeVars, askVars, callVars, exitVars,
                   turnVars>>

InitRetriever ==
    /\ knowledgeBase = <<>>
    /\ chunkSize = 1
    /\ chunks \in SeqsUpTo(ChunkPool, MaxChunks)
    /\ kbLoaded = TRUE
    /\ asked = FALSE
    /\ query \in QueryPool
    /\ maxChunks \in 0..MaxRelevant
    /\ scored = <<>>
    /\ relevant = <<>>
    /\ ProcessNotStarted

NextRetriever == FindRelevantChunks

SpecRetriever == InitRetriever /\ [][NextRetriever]_vars

ScoreOf(i) == scored[i].score

\* C7: findRelevantChunks returns min(maxChunks, number of chunks) chunks of
\* the chunk sequence, zero scores included: the best scoring ones, by
\* non-increasing score, chunks of equal score in their original order.
C7_TopChunksInStableOrder ==
    asked =>
    /\ Len(relevant) = Min(maxChunks, Len(chunks))
    /\ \E p \in [DOMAIN relevant -> DOMAIN chunks] :
          /\ \A j \in DOMAIN relevant : relevant[j] = chunks[p[j]]
          /\ \A j, k \in DOMAIN relevant :
                j < k => \/ ScoreOf(p[j]) > ScoreOf(p[k])
                         \/ ScoreOf(p[j]) = ScoreOf(p[k]) /\ p[j] < p[k]
          /\ \A i \in DOMAIN chunks : \A j \in DOMAIN relevant :
                (\A k \in DOMAIN relevant : p[k] # i) =>
                   \/ ScoreOf(p[j]) > ScoreOf(i)
                   \/ ScoreOf(p[j]) = ScoreOf(i) /\ p[j] < i

\* C7's case: some chunks are left out, the first chunk returned is not the
\* first chunk, and two different chunks of equal score are returned.
C7_Witness ==
    /\ asked
    /\ Len(relevant) < Len(chunks)
    /\ Len(relevant) >= 2
    /\ relevant[1] # chunks[1]
    /\ \E i, j \in DOMAIN chunks :
          /\ i < j
          /\ ScoreOf(i) = ScoreOf(j)
          /\ chunks[i] # chunks[j]
          /\ \E a, b \in DOMAIN relevant :
                a < b /\ relevant[a] = chunks[i] /\ relevant[b] = chunks[j]

\* The whitespace-separated tokens of q: its maximal runs of other
\* characters, as pairs <<first, last>> of positions.
QueryTokens(q) ==
    {t \in (1..Len(q)) \X (1..Len(q)) :
        /\ t[1] <= t[2]
        /\ \A k \in t[1]..t[2] : ~IsSpace(q[k])
        /\ t[1] = 1 \/ IsSpace(q[t[1] - 1])
        /\ t[2] = Len(q) \/ IsSpace(q[t[2] + 1])}

\* s occurs in chunk, letter case ignored.
ContainsIgnoringCase(chunk, s) ==
    \E at \in 1..(Len(chunk) - Len(s) + 1) :
        \A k \in 1..Len(s) : LowerChar(chunk[at + k - 1]) = LowerChar(s[k])

ClaimedScore(chunk, q) ==
    (IF ContainsIgnoringCase(chunk, q) THEN 10 ELSE 0)
    + 2 * Cardinality({t \in QueryTokens(q) :
                          /\ t[2] - t[1] + 1 > 3
                          /\ ContainsIgnoringCase(chunk, SubSeq(q, t[1], t[2]))})
    + (IF Includes(chunk, TABLE) \/ Includes(chunk, DOLLAR) THEN 1 ELSE 0)

\* chunk contains neither the query nor one of its tokens longer than 3.
ContainsNothingOf(chunk, q) ==
    /\ ~ContainsIgnoringCase(chunk, q)
    /\ \A t \in QueryTokens(q) :
          t[2] - t[1] + 1 > 3 => ~ContainsIgnoringCase(chunk, SubSeq(q, t[1], t[2]))

\* C8: a chunk scores 10 if it contains the query, plus 2 for every token
\* of the query longer than 3 characters that it contains, plus 1 if it
\* contains "Table" or "$"; for the query "standard deduction" a chunk with
\* the exact phrase scores at least 10 more than a chunk with neither the
\* phrase nor a keyword.
C8_ScoreFormula ==
    asked =>
    /\ \A i \in DOMAIN chunks : ScoreOf(i) = ClaimedScore(chunks[i], query)
    /\ query = QUERY_STANDARD_DEDUCTION =>
          \A i, j \in DOMAIN chunks :
              /\ Includes(chunks[i], QUERY_STANDARD_DEDUCTION)
              /\ ContainsNothingOf(chunks[j], query)
              => ScoreOf(i) >= ScoreOf(j) + 10

\* C8's case: the query is "standard deduction", one chunk holds the phrase
\* (10 + 2 + 2), one holds a keyword and a "$" (2 + 1), one holds neither
\* and gets the "Table" point.
C8_Witness ==
    /\ asked
    /\ query = QUERY_STANDARD_DEDUCTION
    /\ \E i, j, k \in DOMAIN chunks :
          /\ Includes(chunks[i], QUERY_STANDARD_DEDUCTION) /\ ScoreOf(i) = 14
          /\ ContainsNothingOf(chunks[j], query) /\ ScoreOf(j) = 1
          /\ chunks[k] = CHUNK_KEYWORD /\ ScoreOf(k) = 3

\* C9 (as claimed): two chunks that differ only in letter case get the same
\* score, and the letter case of the query changes no score.
C9_ScoreIgnoresCase ==
    asked =>
    /\ \A i, j \in DOMAIN chunks :
          toLowerCase(chunks[i]) = toLowerCase(chunks[j]) => ScoreOf(i) = ScoreOf(j)
    /\ \A q \in QueryPool :
          toLowerCase(q) = toLowerCase(query) =>
             \A i \in DOMAIN chunks : ScoreChunks(chunks, q)[i].score = ScoreOf(i)

\* C9 (amended): two chunks that differ only in letter case get the same
\* points for the phrase and the keywords, so that their scores differ by
\* the literal "Table"/"$" point at most, and the letter case of the query
\* changes no score.
C9_ScoreIgnoresCaseButLiteralBonus ==
    asked =>
    /\ \A i, j \in DOMAIN chunks :
          toLowerCase(chunks[i]) = toLowerCase(chunks[j]) =>
             ScoreOf(i) - LiteralBonus(chunks[i]) = ScoreOf(j) - LiteralBonus(chunks[j])
    /\ \A q \in QueryPool :
          toLowerCase(q) = toLowerCase(query) =>
             \A i \in DOMAIN chunks : ScoreChunks(chunks, q)[i].score = ScoreOf(i)

\* C9's case: the query has capital letters and matches, as phrase and as
\* keyword, two chunks that differ in letter case only.
C9_Witness ==
    /\ asked
    /\ query # toLowerCase(query)
    /\ \E q \in QueryPool : q # query /\ toLowerCase(q) = toLowerCase(query)
    /\ \E i, j \in DOMAIN chunks :
          /\ chunks[i] # chunks[j]
          /\ toLowerCase(chunks[i]) = toLowerCase(chunks[j])
          /\ ScoreOf(i) - LiteralBonus(chunks[i]) = 12
          /\ ScoreOf(j) - LiteralBonus(chunks[j]) = 12

(***************************************************************************)
(* The session store: SessionManager.                                      *)
(*                                                                         *)
(* Dates.  The clock counts seconds and the milliseconds within a second;  *)
(* toISOString prints them as SS.mmmZ, the tail of the ISO format.         *)
(***************************************************************************)
DIGITS == <<"0", "1", "2", "3", "4", "5", "6", "7", "8", "9">>

\* Number to decimal digits, as String(n) and JSON.stringify print it.
RECURSIVE ToDigits(_)
ToDigits(n) ==
    IF n < 10 THEN <<DIGITS[n + 1]>>
    ELSE Append(ToDigits(n \div 10), DIGITS[(n % 10) + 1])

DigitValue(c) == CHOOSE d \in 0..9 : DIGITS[d + 1] = c

\* Decimal digits to number, as JSON.parse reads them.
RECURSIVE FromDigits(_)
FromDigits(s) ==
    IF Len(s) = 1 THEN DigitValue(s[1])
    ELSE 10 * FromDigits(Take(s, Len(s) - 1)) + DigitValue(s[Len(s)])

RECURSIVE PadStart(_, _, _)
PadStart(s, width, c) ==
    IF Len(s) >= width THEN s ELSE PadStart(<<c>> \o s, width, c)

\* Date.prototype.toISOString
toISOString(t) ==
    PadStart(ToDigits(t.sec), 2, "0") \o <<".">> \o PadStart(ToDigits(t.ms), 3, "0")
        \o <<"Z">>

\* s.replace(/[:.]/g, '-')
ReplaceColonsAndDots(s) ==
    [i \in DOMAIN s |-> IF s[i] \in {":", "."} THEN "-" ELSE s[i]]

\* createSession: the timestamp of the default name, the ISO string cut
\* after the seconds.
SessionTimestamp(t) == Take(ReplaceColonsAndDots(toISOString(t)), 2)

SESSION_PREFIX == <<"s", "e", "s", "s", "i", "o", "n", "-">>

\* new Date(): no two reads of the clock return the same instant.
Tick(t) == [t EXCEPT !.ms = t.ms + 1]

\* The next second begins.
NextSecond(t) == [sec |-> t.sec + 1, ms |-> 0]

MODEL == <<"google/gemini-3-flash-preview">>

USER == "user"
ASSISTANT == "assistant"

(***************************************************************************)
(* JSON.  The text of a session file is the sequence of its tokens: the    *)
(* punctuation, the keys, and the strings and numbers as JSON.stringify    *)
(* writes them, strings with their escapes.                                *)
(***************************************************************************)
QUOTE == "\""
BACKSLASH == "\\"

EscapeChar(c) ==
    IF c = QUOTE THEN <<BACKSLASH, QUOTE>>
    ELSE IF c = BACKSLASH THEN <<BACKSLASH, BACKSLASH>>
    ELSE IF c = NL THEN <<BACKSLASH, "n">>
    ELSE <<c>>

RECURSIVE Escape(_)
Escape(s) == IF s = <<>> THEN <<>> ELSE EscapeChar(Head(s)) \o Escape(Tail(s))

RECURSIVE Unescape(_)
Unescape(s) ==
    IF s = <<>> THEN <<>>
    ELSE IF Head(s) = BACKSLASH /\ Len(s) >= 2
         THEN <<IF s[2] = "n" THEN NL ELSE s[2]>> \o Unescape(Drop(s, 2))
         ELSE <<Head(s)>> \o Unescape(Tail(s))

Punct(c) == [k |-> "punct", s |-> <<c>>]
Key(name) == [k |-> "key", s |-> <<name>>]
Str(x) == [k |-> "string", s |-> Escape(x)]
Num(n) == [k |-> "number", s |-> ToDigits(n)]

StringifyMessage(m) ==
    <<Punct("{"), Key("role"), Str(<<m.role>>), Key("content"), Str(m.content),
      Key("timestamp"), Str(m.timestamp), Punct("}")>>

RECURSIVE StringifyMessages(_)
StringifyMessages(ms) ==
    IF ms = <<>> THEN <<>>
    ELSE StringifyMessage(Head(ms)) \o StringifyMessages(Tail(ms))

\* JSON.stringify(this.currentSession, null, 2)
JSONstringify(session) ==
    <<Punct("{"), Key("id"), Str(session.id), Key("name"), Str(session.name),
      Key("createdAt"), Str(session.createdAt), Key("messages"), Punct("[")>>
    \o StringifyMessages(session.messages)
    \o <<Punct("]"), Key("metadata"), Punct("{"), Key("model"),
         Str(session.metadata.model), Key("totalTurns"),
         Num(session.metadata.totalTurns), Punct("}"), Punct("}")>>

\* The shape of a session text: its fixed tokens, any string, any number.
AnyString == [k |-> "string", s |-> <<>>]
AnyNumber == [k |-> "number", s |-> <<>>]

Matches(tok, pat) ==
    /\ tok.k = pat.k
    /\ pat.k \in {"string", "number"} \/ tok.s = pat.s

ShapeAt(tokens, at, shape) ==
    /\ at + Len(shape) - 1 <= Len(tokens)
    /\ \A i \in 1..Len(shape) : Matches(tokens[at + i - 1], shape[i])

HEAD_SHAPE ==
    <<Punct("{"), Key("id"), AnyString, Key("name"), AnyString,
      Key("createdAt"), AnyString, Key("messages"), Punct("[")>>

MESSAGE_SHAPE ==
    <<Punct("{"), Key("role"), AnyString, Key("content"), AnyString,
      Key("timestamp"), AnyString, Punct("}")>>

FOOT_SHAPE ==
    <<Punct("]"), Key("metadata"), Punct("{"), Key("model"), AnyString,
      Key("totalTurns"), AnyNumber, Punct("}"), Punct("}")>>

RECURSIVE ParseMessages(_, _, _)
ParseMessages(tokens, at, acc) ==
    IF ShapeAt(tokens, at, MESSAGE_SHAPE)
    THEN ParseMessages(tokens, at + Len(MESSAGE_SHAPE),
             Append(acc, [role |-> Unescape(tokens[at + 2].s)[1],
                          content |-> Unescape(tokens[at + 4].s),
                          timestamp |-> Unescape(tokens[at + 6].s)]))
    ELSE [at |-> at, messages |-> acc]

\* JSON.parse(data): ok is FALSE where it throws; a text that is not one
\* whole session text is not JSON.
JSONparse(tokens) ==
    IF ~ShapeAt(tokens, 1, HEAD_SHAPE) THEN [ok |-> FALSE, value |-> NoSession]
    ELSE LET body == ParseMessages(tokens, Len(HEAD_SHAPE) + 1, <<>>)
             foot == body.at
         IN  IF ShapeAt(tokens, foot, FOOT_SHAPE)
                    /\ foot + Len(FOOT_SHAPE) - 1 = Len(tokens)
             THEN [ok |-> TRUE,
                   value |-> [id |-> Unescape(tokens[3].s),
                              name |-> Unescape(tokens[5].s),
                              createdAt |-> Unescape(tokens[7].s),
                              messages |-> body.messages,
                              metadata |->
                                  [model |-> Unescape(tokens[foot + 4].s),
                                   totalTurns |-> FromDigits(tokens[foot + 6].s)]]]
             ELSE [ok |-> FALSE, value |-> NoSession]

(***************************************************************************)
(* The sessions directory.                                                 *)
(***************************************************************************)
Put(map, key, value) ==
    [x \in DOMAIN map \cup {key} |-> IF x = key THEN value ELSE map[x]]

Remove(map, key) == [x \in DOMAIN map \ {key} |-> map[x]]

\* fs.unlink with every call resolving.
DeleteAlwaysSucceeds(dir, id) == TRUE

\* fs.unlink(<id>.json) resolves where the file exists and throws where it
\* does not.
DeleteSucceeds(dir, id) == id \in DOMAIN dir

\* The order of localeCompare on the characters of the ids.
COLLATION == <<"-">> \o DIGITS \o LOWERCASE

Rank(c) == CHOOSE i \in DOMAIN COLLATION : COLLATION[i] = c

RECURSIVE localeCompare(_, _)
localeCompare(a, b) ==
    IF a = <<>> /\ b = <<>> THEN 0
    ELSE IF a = <<>> THEN -1
    ELSE IF b = <<>> THEN 1
    ELSE IF Rank(Head(a)) < Rank(Head(b)) THEN -1
    ELSE IF Rank(Head(a)) > Rank(Head(b)) THEN 1
    ELSE localeCompare(Tail(a), Tail(b))

\* .sort((a, b) => b.localeCompare(a)) of distinct ids
RECURSIVE SortDescending(_)
SortDescending(ids) ==
    IF ids = {} THEN <<>>
    ELSE LET top == CHOOSE x \in ids : \A y \in ids : localeCompare(x, y) >= 0
         IN  <<top>> \o SortDescending(ids \ {top})

\* loadSessionsList: the ids of the files of the directory.
loadSessionsList(dir) == SortDescending(DOMAIN dir)

(***************************************************************************)
(* createSession, saveSession, addMessage.                                 *)
(***************************************************************************)
\* items.slice(-n)
SliceLast(items, n) == Drop(items, Max(Len(items) - n, 0))

\* addMessage with the truncation left out.
TruncateNever(messages) == messages

\* addMessage with the truncation keeping the oldest messages.
TruncateKeepsOldest(messages) ==
    IF Len(messages) > MAX_HISTORY_TURNS * 2
    THEN Take(messages, MAX_HISTORY_TURNS * 2)
    ELSE messages

\* addMessage: the truncation of the history.
Truncate(messages) ==
    IF Len(messages) > MAX_HISTORY_TURNS * 2
    THEN SliceLast(messages, MAX_HISTORY_TURNS * 2)
    ELSE messages

\* messages.filter(m => m.role === 'user').length
UserCount(messages) ==
    Cardinality({i \in DOMAIN messages : messages[i].role = USER})

\* The session createSession(name) makes when the clock reads t and then u.
NewSessionObject(name, t, u) ==
    LET sessionName == IF name # <<>> THEN name
                       ELSE SESSION_PREFIX \o SessionTimestamp(t)
    IN  [id |-> sessionName,
         name |-> sessionName,
         createdAt |-> toISOString(u),
         messages |-> <<>>,
         metadata |-> [model |-> MODEL, totalTurns |-> 0]]

\* The fs.writeFile call of saveSession: the file is opened, which empties
\* it, and then the text is written.
Write(session, awaited) ==
    [id |-> session.id, data |-> JSONstringify(session), session |-> session,
     opened |-> FALSE, awaited |-> awaited, shutdown |-> FALSE]

\* The fs.writeFile call of the saveSession that gracefulShutdown awaits.
ShutdownWrite(session) == [Write(session, TRUE) EXCEPT !.shutdown = TRUE]

\* The writes in flight are bounded.
CanWrite == Cardinality(pending) < env.maxPending

\* saveSession(), not awaited.
saveSession ==
    /\ pending' = pending \cup {Write(currentSession', FALSE)}
    /\ saved' = Remove(saved, currentSession'.id)

\* await saveSession(): the caller goes on at next when the write is done.
awaitSaveSession(next) ==
    /\ pending' = pending \cup {Write(currentSession', TRUE)}
    /\ saved' = Remove(saved, currentSession'.id)
    /\ pc' = "saving"
    /\ resume' = next

createSession(name, next) ==
    /\ currentSession' = NewSessionObject(name, now, Tick(now))
    /\ now' = Tick(Tick(now))
    /\ appended' = NothingAppended
    /\ awaitSaveSession(next)

\* addMessage stamping the messages already stored with the time of the
\* new one.
PushMessageRestamps(session, message) ==
    LET restamped == [i \in DOMAIN session.messages |->
                        [session.messages[i] EXCEPT !.timestamp = message.timestamp]]
        pushed == Append(restamped, message)
    IN  [session EXCEPT !.metadata.totalTurns = UserCount(pushed),
                        !.messages = Truncate(pushed)]

\* addMessage: what it makes of the session.
PushMessage(session, message) ==
    LET pushed == Append(session.messages, message)
    IN  [session EXCEPT !.metadata.totalTurns = UserCount(pushed),
                        !.messages = Truncate(pushed)]

addMessage(role, content) ==
    IF currentSession = NoSession
    THEN UNCHANGED <<currentSession, pending, saved, now, appended>>
    ELSE LET message == [role |-> role, content |-> content,
                         timestamp |-> toISOString(now)]
         IN  /\ currentSession' = PushMessage(currentSession, message)
             /\ now' = Tick(now)
             /\ appended' = [appended EXCEPT !.messages = Append(@, message)]
             /\ saveSession

(***************************************************************************)
(* fs.writeFile completing: the two steps of every write in flight, in     *)
(* any order among the writes.                                             *)
(***************************************************************************)
WriteOpens ==
    \E w \in pending :
        /\ ~w.opened
        /\ disk' = Put(disk, w.id, <<>>)
        /\ pending' = (pending \ {w}) \cup {[w EXCEPT !.opened = TRUE]}
        /\ UNCHANGED <<kbVars, turnVars, askVars, callVars, exitVars, pc, resume, env, streamVars>>
        /\ UNCHANGED <<currentSession, sessions, now, appended, saved, loaded>>

\* The text overwrites the file from its start.
Overwrite(old, data) == data \o Drop(old, Len(data))

WriteLands ==
    \E w \in pending :
        /\ w.opened
        /\ ~w.awaited
        /\ disk' = IF w.id \in DOMAIN disk
                   THEN Put(disk, w.id, Overwrite(disk[w.id], w.data))
                   ELSE disk
        /\ pending' = pending \ {w}
        /\ UNCHANGED <<kbVars, turnVars, askVars, callVars, exitVars, pc, resume, env, streamVars>>
        /\ UNCHANGED <<currentSession, sessions, now, appended, saved, loaded>>

\* The write of an awaited saveSession is done: its caller goes on.
AwaitedWriteLands ==
    \E w \in pending :
        /\ w.opened
        /\ w.awaited
        /\ ~w.shutdown
        /\ pc = "saving"
        /\ disk' = IF w.id \in DOMAIN disk
                   THEN Put(disk, w.id, Overwrite(disk[w.id], w.data))
                   ELSE disk
        /\ pending' = pending \ {w}
        /\ saved' = Put(saved, w.id, w.session)
        /\ pc' = resume
        /\ UNCHANGED <<kbVars, turnVars, askVars, callVars, exitVars, resume, env, streamVars>>
        /\ UNCHANGED <<currentSession, sessions, now, appended, loaded>>

(***************************************************************************)
(* formatter.js: line formatting and tables.  A text is a sequence of      *)
(* characters; an escape sequence that chalk writes on a colour terminal,  *)
(* and a box-drawing or bullet character, is one element named here.       *)
(***************************************************************************)
BOLD_ON == "ESC[1m"
BOLD_OFF == "ESC[22m"
ITALIC_ON == "ESC[3m"
ITALIC_OFF == "ESC[23m"
UNDERLINE_ON == "ESC[4m"
UNDERLINE_OFF == "ESC[24m"
HIGHLIGHT_ON == "ESC[38;2;52;199;89m"
DIM_ON == "ESC[38;2;99;99;102m"
COLOR_OFF == "ESC[39m"
ANSI ==
    {BOLD_ON, BOLD_OFF, ITALIC_ON, ITALIC_OFF, UNDERLINE_ON, UNDERLINE_OFF,
     HIGHLIGHT_ON, DIM_ON, COLOR_OFF}

BULLET == "bullet"
BOX_HORIZONTAL == "box-horizontal"
BOX_VERTICAL == "box-vertical"
BOX_DOWN == "box-down-and-horizontal"
BOX_CROSS == "box-vertical-and-horizontal"
BOX_UP == "box-up-and-horizontal"
PIPE == "|"

\* chalk.bold, chalk.italic, chalk.bold.underline and C.highlight: the
\* sequences written before and after the text.
BOLD == [on |-> <<BOLD_ON>>, off |-> <<BOLD_OFF>>]
ITALIC == [on |-> <<ITALIC_ON>>, off |-> <<ITALIC_OFF>>]
BOLD_UNDERLINE == [on |-> <<BOLD_ON, UNDERLINE_ON>>, off |-> <<UNDERLINE_OFF, BOLD_OFF>>]
HIGHLIGHT == [on |-> <<HIGHLIGHT_ON>>, off |-> <<COLOR_OFF>>]

Styled(style, s) == style.on \o s \o style.off
Highlight(s) == Styled(HIGHLIGHT, s)

\* s.replace(/\x1b\[[0-9;]*m/g, '')
StripAnsi(s) == SelectSeq(s, LAMBDA c : c \notin ANSI)

\* The length of the longest prefix of s made of characters of class.
RECURSIVE RunLength(_, _)
RunLength(s, class) ==
    IF s # <<>> /\ Head(s) \in class THEN 1 + RunLength(Tail(s), class) ELSE 0

DigitChars == {DIGITS[i] : i \in DOMAIN DIGITS}

\* text.replace(/(\$[\d,]+)/g, C.highlight('$1'))
RECURSIVE HighlightAmounts(_)
HighlightAmounts(s) ==
    IF s = <<>> THEN <<>>
    ELSE LET n == RunLength(Tail(s), DigitChars \cup {","})
         IN  IF Head(s) = "$" /\ n > 0
             THEN Highlight(Take(s, n + 1)) \o HighlightAmounts(Drop(s, n + 1))
             ELSE <<Head(s)>> \o HighlightAmounts(Tail(s))

\* text.replace(/(\d+%)/g, C.highlight('$1'))
RECURSIVE HighlightPercentages(_)
HighlightPercentages(s) ==
    IF s = <<>> THEN <<>>
    ELSE LET n == RunLength(s, DigitChars)
         IN  IF n > 0 /\ Len(s) > n /\ s[n + 1] = "%"
             THEN Highlight(Take(s, n + 1)) \o HighlightPercentages(Drop(s, n + 1))
             ELSE IF n > 0
             THEN Take(s, n) \o HighlightPercentages(Drop(s, n))
             ELSE <<Head(s)>> \o HighlightPercentages(Tail(s))

\* s.indexOf(p, from - 1) + 1: the first position from from on at which p
\* occurs in s, 0 when there is none.
RECURSIVE IndexOf(_, _, _)
IndexOf(s, p, from) ==
    IF from + Len(p) - 1 > Len(s) THEN 0
    ELSE IF StartsWithAt(s, p, from) THEN from
    ELSE IndexOf(s, p, from + 1)

\* text.replace(/<mark>(.+?)<mark>/g, (_, p1) => style(p1)), for the marks
\* ** and _: the span closes at the first mark that leaves it non-empty.
\* (A line holds no line terminator, so . matches every character of it.)
RECURSIVE StyleSpans(_, _, _)
StyleSpans(s, mark, style) ==
    IF s = <<>> THEN <<>>
    ELSE LET close == IndexOf(s, mark, 2 * Len(mark) + 1)
         IN  IF StartsWithAt(s, mark, 1) /\ close > 0
             THEN Styled(style, SubSeq(s, Len(mark) + 1, close - 1))
                      \o StyleSpans(Drop(s, close + Len(mark) - 1), mark, style)
             ELSE <<Head(s)>> \o StyleSpans(Tail(s), mark, style)

\* text.replace(/^\*\s/, C.dim('• ') + ' ')
StyleBullet(s) ==
    IF Len(s) >= 2 /\ s[1] = "*" /\ IsSpace(s[2])
    THEN <<DIM_ON, BULLET, SP, COLOR_OFF, SP>> \o Drop(s, 2)
    ELSE s

\* text.replace(/^<hashes>\s+(.+)$/, (_, p1) => style(p1)): \s+ takes the
\* whole run of spaces unless nothing follows it, when it leaves the last
\* space to (.+).
StyleHeader(s, hashes, style) ==
    LET rest == Drop(s, Len(hashes))
        spaces == RunLength(rest, {SP, NL})
    IN  IF StartsWithAt(s, hashes, 1) /\ spaces > 0 /\ Len(rest) > spaces
        THEN Styled(style, Drop(rest, spaces))
        ELSE IF StartsWithAt(s, hashes, 1) /\ spaces > 1
        THEN Styled(style, Drop(rest, spaces - 1))
        ELSE s

formatLine(text) ==
    LET amounts == HighlightAmounts(text)
        percentages == HighlightPercentages(amounts)
        bold == StyleSpans(percentages, <<"*", "*">>, BOLD)
        italic == StyleSpans(bold, <<"_">>, ITALIC)
        bullet == StyleBullet(italic)
        header3 == StyleHeader(bullet, <<"#", "#", "#">>, BOLD_UNDERLINE)
    IN  StyleHeader(header3, <<"#", "#">>, BOLD)

RECURSIVE truncateWithAnsi(_, _)
truncateWithAnsi(text, maxLength) ==
    IF text = <<>> THEN <<>>
    ELSE IF Head(text) \in ANSI
    THEN <<Head(text)>> \o truncateWithAnsi(Tail(text), maxLength)
    ELSE IF maxLength <= 0 THEN <<>>
    ELSE <<Head(text)>> \o truncateWithAnsi(Tail(text), maxLength - 1)

\* The most characters a column shows, with its two spaces of margin.
MAX_COLUMN_WIDTH == 35

\* c.repeat(n)
Repeat(c, n) == [i \in 1..n |-> c]

\* s.padEnd(width)
PadEnd(s, width) == s \o Repeat(SP, Max(width - Len(s), 0))

\* line.trim().startsWith('|')
IsTableLine(line) == StartsWithAt(Trim(line), <<PIPE>>, 1)

\* The while loop of renderTable: the lines from idx on that start with a
\* pipe, up to the first that does not.
RECURSIVE TableLines(_, _)
TableLines(lines_, idx) ==
    IF idx <= Len(lines_) /\ IsTableLine(lines_[idx])
    THEN <<lines_[idx]>> \o TableLines(lines_, idx + 1)
    ELSE <<>>

\* line.split('|').map(cell => cell.trim()).filter(cell => cell.length > 0)
ParseRow(line) ==
    LET cells == Split(line, <<PIPE>>)
    IN  SelectSeq([i \in DOMAIN cells |-> Trim(cells[i])], LAMBDA cell : cell # <<>>)

\* tableLines.map(...).filter(row => row.length > 0)
ParseRows(tableLines) ==
    SelectSeq([i \in DOMAIN tableLines |-> ParseRow(tableLines[i])],
              LAMBDA row : row # <<>>)

\* row.every(cell => /^[-:]+$/.test(cell))
IsSeparatorRow(row) ==
    \A i \in DOMAIN row : row[i] # <<>> /\ \A k \in DOMAIN row[i] : row[i][k] \in {"-", ":"}

\* renderTable with the separator row kept among the rows.
DataRowsWithSeparator(rows) == rows

\* rows.filter(row => !row.every(...))
DataRows(rows) == SelectSeq(rows, LAMBDA row : ~IsSeparatorRow(row))

\* Math.max(...numbers), of a non-empty sequence.
RECURSIVE MaxOf(_)
MaxOf(numbers) ==
    IF Len(numbers) = 1 THEN numbers[1] ELSE Max(Head(numbers), MaxOf(Tail(numbers)))

\* row[col] || ''
CellOr(row, col) == IF col <= Len(row) THEN row[col] ELSE <<>>

ColWidths(dataRows) ==
    LET colCount == MaxOf([r \in DOMAIN dataRows |-> Len(dataRows[r])])
    IN  [col \in 1..colCount |->
            Min(MaxOf([r \in DOMAIN dataRows |->
                          Len(StripAnsi(CellOr(dataRows[r], col)))]) + 2,
                MAX_COLUMN_WIDTH)]

\* '  ' + colWidths.map(w => '─'.repeat(w)).join('─' + joint + '─') + '\n'
Border(colWidths, joint) ==
    <<SP, SP>> \o Join([i \in DOMAIN colWidths |-> Repeat(BOX_HORIZONTAL, colWidths[i])],
                       <<BOX_HORIZONTAL, joint, BOX_HORIZONTAL>>) \o <<NL>>

HeaderCell(cell, width) ==
    LET plainCell == StripAnsi(cell)
        truncated == Take(plainCell, Min(width - 2, Len(plainCell)))
    IN  Styled(BOLD, <<SP>> \o PadEnd(truncated, width - 2) \o <<SP>>)

DataCell(cell, width) ==
    LET formatted == formatLine(cell)
        visibleLength == Len(StripAnsi(formatted))
        targetWidth == width - 2
        paddingNeeded == targetWidth - Min(visibleLength, targetWidth)
    IN  <<SP>> \o truncateWithAnsi(formatted, targetWidth) \o Repeat(SP, paddingNeeded)
            \o <<SP>>

\* '  │' + cells.join('│') + '│\n'
TableRow(cells) ==
    <<SP, SP, BOX_VERTICAL>> \o Join(cells, <<BOX_VERTICAL>>) \o <<BOX_VERTICAL, NL>>

\* headerRow.map((cell, i) => ...)
HeaderCells(row, colWidths) == [i \in DOMAIN row |-> HeaderCell(row[i], colWidths[i])]

\* dataRows[i].map((cell, col) => ...)
DataCells(row, colWidths) == [col \in DOMAIN row |-> DataCell(row[col], colWidths[col])]

RECURSIVE TableRows(_, _)
TableRows(rows, colWidths) ==
    IF rows = <<>> THEN <<>>
    ELSE TableRow(DataCells(Head(rows), colWidths)) \o TableRows(Tail(rows), colWidths)

\* The table of renderTable once its rows are known.
BuildTable(dataRows) ==
    LET colWidths == ColWidths(dataRows)
    IN  <<NL>> \o Border(colWidths, BOX_DOWN)
            \o TableRow(HeaderCells(dataRows[1], colWidths))
            \o Border(colWidths, BOX_CROSS)
            \o TableRows(Tail(dataRows), colWidths)
            \o Border(colWidths, BOX_UP)

\* renderTable(lines, startIdx - 1), with idx counted from 1.
renderTable(lines_, startIdx) ==
    LET tableLines == TableLines(lines_, startIdx)
        rows == ParseRows(tableLines)
        dataRows == DataRows(rows)
        notATable == [null |-> TRUE, rendered |-> <<>>, endIdx |-> startIdx]
    IN  IF Len(tableLines) < 2 THEN notATable
        ELSE IF Len(rows) < 2 THEN notATable
        ELSE IF Len(dataRows) = 0 THEN notATable
        ELSE [null |-> FALSE, rendered |-> BuildTable(dataRows),
              endIdx |-> startIdx + Len(tableLines)]

\* The while loop of renderMarkdown, from line i on.
RECURSIVE RenderFrom(_, _)
RenderFrom(lines_, i) ==
    IF i > Len(lines_) THEN <<>>
    ELSE LET table == renderTable(lines_, i)
         IN  IF IsTableLine(lines_[i]) /\ ~table.null
             THEN table.rendered \o RenderFrom(lines_, table.endIdx)
             ELSE formatLine(lines_[i]) \o <<NL>> \o RenderFrom(lines_, i + 1)

renderMarkdown(content) == RenderFrom(Split(content, <<NL>>), 1)

(***************************************************************************)
(* The streaming renderer: TaxGPT.streamResponse.                          *)
(***************************************************************************)
\* A chunk of the stream whose delta carries a text, and one that carries
\* none.
Delta(text) == [has |-> TRUE, text |-> text]
NO_CONTENT == [has |-> FALSE, text |-> <<>>]

\* chunk.choices[0]?.delta?.content || ''
DeltaContent(d) == IF d.has /\ d.text # <<>> THEN d.text ELSE <<>>

\* What streamResponse writes to stdout.
Label == [op |-> "label", text |-> <<>>]
Line(text) == [op |-> "line", text |-> text]
\* The cursor moved up without the two lines of the label counted.
CursorUpWithoutLabel(n) == [op |-> "up", text |-> ToDigits(n - 2)]

\* '\x1b[' + lineCount + 'A'
CursorUp(n) == [op |-> "up", text |-> ToDigits(n)]
ClearDown == [op |-> "clear", text |-> <<>>]
Rendered(text) == [op |-> "render", text |-> text]

\* streamResponse with the complete lines written last first.
LinesReversed(parts) == [i \in DOMAIN parts |-> Line(parts[Len(parts) + 1 - i])]

Lines(parts) == [i \in DOMAIN parts |-> Line(parts[i])]

\* streamResponse with fullContent taking the text received last.
AccumulateLastOnly(full, content) == content

\* fullContent += content
Accumulate(full, content) == full \o content

\* The body of the for await loop, for one chunk of the stream.
StreamDelta ==
    /\ pc = "streaming"
    /\ stream # <<>>
    /\ LET content == DeltaContent(Head(stream))
           parts == Split(currentLine \o content, <<NL>>)
           complete == Take(parts, Len(parts) - 1)
       IN  IF content # <<>>
           THEN /\ fullContent' = Accumulate(fullContent, content)
                /\ IF Includes(content, <<NL>>)
                   THEN /\ lines' = lines \o complete
                        /\ sink' = sink \o Lines(complete)
                        /\ currentLine' = parts[Len(parts)]
                   ELSE /\ currentLine' = currentLine \o content
                        /\ UNCHANGED <<lines, sink>>
           ELSE UNCHANGED <<fullContent, lines, currentLine, sink>>
    /\ arrived' = Append(arrived, Head(stream))
    /\ stream' = Tail(stream)
    /\ UNCHANGED <<kbVars, turnVars, askVars, callVars, exitVars, pc, resume, env, storeVars>>

\* The stream has ended: the rest of streamResponse, and the addMessage of
\* its caller with the text it returns.  Its locals end with it.
StreamEnds ==
    /\ pc = "streaming"
    /\ stream = <<>>
    /\ CanWrite
    /\ addMessage(ASSISTANT, fullContent)
    /\ pc' = resume
    /\ fullContent' = <<>>
    /\ lines' = <<>>
    /\ currentLine' = <<>>
    /\ LET allLines == IF currentLine # <<>> THEN Append(lines, currentLine)
                       ELSE lines
           printed == IF currentLine # <<>> THEN Append(sink, Line(currentLine))
                      ELSE sink
       IN  sink' = IF Includes(fullContent, <<"|">>)
                   THEN printed \o <<CursorUp(Len(allLines) + 2), ClearDown,
                                     Rendered(renderMarkdown(fullContent))>>
                   ELSE printed
    /\ UNCHANGED <<kbVars, turnVars, askVars, callVars, exitVars, resume, env, stream, arrived, sessions, disk, loaded>>

\* The message of the error the completion service fails with, and the
\* words the catch of the greeting puts before it.
COMPLETION_ERROR == "Connection error."
WELCOME_FAILED == "Failed to load welcome message: "

\* printError with nothing written.
printErrorSilently(message) == NothingShown

\* printError(message)
printError(message) == [null |-> FALSE, message |-> message]

\* catch (error) of the turn at hand: that of the greeting when the starter
\* prompt comes next, else that of a question.
catchError(message) ==
    /\ shown' = printError(IF resume = "starter" THEN <<WELCOME_FAILED>> \o message
                            ELSE message)
    /\ pc' = resume

\* The stream throws: the catch of the caller, no message is added.
StreamFails ==
    /\ pc = "streaming"
    /\ env.failures > 0
    /\ env' = [env EXCEPT !.failures = @ - 1]
    /\ catchError(<<COMPLETION_ERROR>>)
    /\ stream' = <<>>
    /\ fullContent' = <<>>
    /\ lines' = <<>>
    /\ currentLine' = <<>>
    /\ UNCHANGED <<kbVars, before, askVars, callVars, exitVars, resume, sink, arrived, storeVars>>

(***************************************************************************)
(* The prompt assembler: TaxGPT.askQuestion and buildSystemPrompt.         *)
(***************************************************************************)
MAX_CONTEXT_CHARS == 120000
DEFAULT_MAX_CHUNKS == 5
RECENT_TURNS == 3
HISTORY_PREVIEW_CHARS == 100

SYSTEM == "system"
ELLIPSIS == <<".", ".", ".">>
CHUNK_SEPARATOR == <<NL, "-", "-", "-", NL>>

\* The fixed parts of the system prompt, each one element.
BASE_PROMPT == "You are Tax GPT ... only legal avoidance strategies"
OPENING_GREETING == "OPENING GREETING (use this exactly or adapt slightly): ..."
CONTEXT_HEADING == "IRS PUBLICATION 17 (2025) CONTEXT:"
HISTORY_HEADING == "RECENT CONVERSATION:"

\* The question of the automatic greeting.
GREETING_QUESTION == <<"I", "n", "t", "r", "o", "d", "u", "c", "e", SP, "y", "o", "u", "r", "s", "e", "l", "f", SP, "a", "n", "d", SP, "s", "u", "g", "g", "e", "s", "t", SP, "s", "o", "m", "e", SP, "t", "a", "x", SP, "s", "a", "v", "i", "n", "g", "s", SP, "q", "u", "e", "s", "t", "i", "o", "n", "s", SP, "I", SP, "c", "o", "u", "l", "d", SP, "a", "s", "k">>

\* items.slice(start): from position start when start is not negative, that
\* many from the end when it is.
Slice(items, start) ==
    IF start < 0 THEN Drop(items, Max(Len(items) + start, 0))
    ELSE Drop(items, Min(start, Len(items)))

\* this.currentSession.messages.slice(-count * 2), where -count * 2 is -0
\* for count 0 and slice takes -0 as 0.
getRecentMessages(count) ==
    IF currentSession = NoSession THEN <<>>
    ELSE Slice(currentSession.messages, 0 - count * 2)

\* text.substring(0, n) + (text.length > n ? '...' : '')
Preview(text, n) == IF Len(text) > n THEN Take(text, n) \o ELLIPSIS ELSE text

\* `${m.role === 'user' ? 'User' : 'Assistant'}: ${m.content.substring(0, 100)}...`
HistoryLine(m) ==
    (IF m.role = USER THEN <<"U", "s", "e", "r">>
     ELSE <<"A", "s", "s", "i", "s", "t", "a", "n", "t">>)
        \o <<":", SP>> \o Preview(m.content, HISTORY_PREVIEW_CHARS)

buildSystemPrompt(context, history, isFirstMessage) ==
    <<BASE_PROMPT, NL, NL>>
        \o (IF isFirstMessage THEN <<OPENING_GREETING, NL, NL>> ELSE <<>>)
        \o <<CONTEXT_HEADING, NL>> \o context \o <<NL, NL>>
        \o (IF history # <<>> THEN <<HISTORY_HEADING, NL>> \o history ELSE <<>>)

\* askQuestion(question) up to its call of the completion service: the
\* request it sends, with its local isFirstMessage.
askQuestion(text) ==
    LET relevantChunks == findRelevantChunks(chunks, text, DEFAULT_MAX_CHUNKS)
        context == Join(relevantChunks, CHUNK_SEPARATOR)
        truncatedContext == Preview(context, MAX_CONTEXT_CHARS)
        recentHistory == getRecentMessages(RECENT_TURNS)
        historyContext ==
            Join([i \in DOMAIN recentHistory |-> HistoryLine(recentHistory[i])], <<NL>>)
        isFirstMessage == Len(recentHistory) = 0
    IN  [isFirstMessage |-> isFirstMessage,
         messages |->
            <<[role |-> SYSTEM,
               content |-> buildSystemPrompt(truncatedContext, historyContext,
                                             isFirstMessage)]>>
              \o [i \in DOMAIN recentHistory |->
                     [role |-> recentHistory[i].role,
                      content |-> recentHistory[i].content]]
              \o <<[role |-> USER, content |-> text]>>]

(***************************************************************************)
(* The interactive loop: TaxGPT.interactiveMode.                           *)
(***************************************************************************)
\* init() and the createSession() of a process that has no session yet.
Startup ==
    /\ pc = "start"
    /\ CanWrite
    /\ sessions' = loadSessionsList(disk)
    /\ IF currentSession = NoSession
       THEN createSession(<<>>, "welcome")
       ELSE /\ pc' = "welcome"
            /\ UNCHANGED <<resume, currentSession, pending, now, appended, saved>>
    /\ UNCHANGED <<kbVars, turnVars, askVars, callVars, exitVars, env, streamVars, disk, loaded>>

\* A session without messages is greeted: the greeting is asked for.
Welcome ==
    /\ pc = "welcome"
    /\ IF currentSession.messages = <<>>
       THEN /\ pc' = "asking"
            /\ resume' = "starter"
            /\ question' = [text |-> GREETING_QUESTION, stored |-> FALSE]
            /\ before' = currentSession.messages
       ELSE pc' = "prompt" /\ UNCHANGED <<resume, question, before>>
    /\ UNCHANGED <<kbVars, shown, request, callVars, exitVars, env, streamVars, storeVars>>

\* askQuestion returns the stream of the completion; streamResponse prints
\* the label and waits for the first chunk.
AskSucceeds ==
    /\ pc = "asking"
    /\ env.replies # <<>>
    /\ stream' = Head(env.replies)
    /\ env' = [env EXCEPT !.replies = Tail(@)]
    /\ fullContent' = <<>>
    /\ lines' = <<>>
    /\ currentLine' = <<>>
    /\ sink' = <<Label>>
    /\ arrived' = <<>>
    /\ pc' = "streaming"
    /\ request' = askQuestion(question.text)
    /\ UNCHANGED <<kbVars, turnVars, question, callVars, exitVars, resume, storeVars>>

\* askQuestion throws: the catch of the caller.
AskFails ==
    /\ pc = "asking"
    /\ env.failures > 0
    /\ env' = [env EXCEPT !.failures = @ - 1]
    /\ catchError(<<COMPLETION_ERROR>>)
    /\ request' = askQuestion(question.text)
    /\ UNCHANGED <<kbVars, before, question, callVars, exitVars, resume, streamVars, storeVars>>

\* The starter prompt: a question, or nothing.
Starter ==
    /\ pc = "starter"
    /\ \E input \in env.questions \cup {<<>>} :
          IF Trim(input) # <<>>
          THEN /\ env.turns > 0
               /\ CanWrite
               /\ env' = [env EXCEPT !.turns = @ - 1]
               /\ addMessage(USER, input)
               /\ pc' = "asking"
               /\ resume' = "prompt"
               /\ question' = [text |-> input, stored |-> TRUE]
               /\ before' = currentSession.messages
          ELSE /\ pc' = "prompt"
               /\ UNCHANGED <<resume, env, currentSession, pending, saved, now,
                              appended, question, before>>
    /\ UNCHANGED <<kbVars, shown, request, callVars, exitVars, streamVars, sessions, disk, loaded>>

\* The main loop: a question.
UserTurn ==
    /\ pc = "prompt"
    /\ env.turns > 0
    /\ CanWrite
    /\ \E input \in env.questions :
          /\ Trim(input) # <<>>
          /\ Head(input) # "/"
          /\ addMessage(USER, input)
          /\ question' = [text |-> input, stored |-> TRUE]
    /\ before' = currentSession.messages
    /\ env' = [env EXCEPT !.turns = @ - 1]
    /\ pc' = "asking"
    /\ resume' = "prompt"
    /\ UNCHANGED <<kbVars, shown, request, callVars, exitVars, streamVars, sessions, disk, loaded>>

(***************************************************************************)
(* The commands: CommandHandler.                                           *)
(***************************************************************************)
\* /new: the name asked for, then createSession(name || null).
NewSession ==
    /\ pc = "prompt"
    /\ env.commands > 0
    /\ CanWrite
    /\ env' = [env EXCEPT !.commands = @ - 1]
    /\ \E sessionName \in env.names \cup {<<>>} : createSession(sessionName, "prompt")
    /\ UNCHANGED <<kbVars, turnVars, askVars, callVars, exitVars, streamVars, sessions, disk, loaded>>

\* loadSession leaving no session current where the file cannot be read.
loadSessionDropsCurrent(sessionId) ==
    LET read == IF sessionId \in DOMAIN disk THEN JSONparse(disk[sessionId])
                ELSE [ok |-> FALSE, value |-> NoSession]
    IN  /\ currentSession' = IF read.ok THEN read.value ELSE NoSession
        /\ appended' = [fresh |-> FALSE, messages |-> <<>>]
        /\ loaded' = [id |-> sessionId,
                      wasSaved |-> sessionId \in DOMAIN saved,
                      expected |-> IF sessionId \in DOMAIN saved
                                   THEN saved[sessionId] ELSE NoSession,
                      returned |-> read]

\* loadSession(sessionId): the file is read and parsed; null is returned,
\* and the current session kept, where either throws.
loadSession(sessionId) ==
    LET read == IF sessionId \in DOMAIN disk THEN JSONparse(disk[sessionId])
                ELSE [ok |-> FALSE, value |-> NoSession]
    IN  /\ currentSession' = IF read.ok THEN read.value ELSE currentSession
        /\ appended' = IF read.ok THEN [fresh |-> FALSE, messages |-> <<>>]
                       ELSE appended
        /\ loaded' = [id |-> sessionId,
                      wasSaved |-> sessionId \in DOMAIN saved,
                      expected |-> IF sessionId \in DOMAIN saved
                                   THEN saved[sessionId] ELSE NoSession,
                      returned |-> read]

\* The ids /switch and /delete offer: all but the current one.
OtherSessions(ids) ==
    {ids[i] : i \in {j \in DOMAIN ids :
                        currentSession = NoSession \/ ids[j] # currentSession.id}}

\* /switch: one of the other sessions is selected and loaded.
SwitchSession ==
    /\ pc = "prompt"
    /\ env.commands > 0
    /\ env' = [env EXCEPT !.commands = @ - 1]
    /\ sessions' = loadSessionsList(disk)
    /\ IF sessions' = <<>>
       THEN UNCHANGED <<currentSession, appended, loaded>>
       ELSE \E selected \in OtherSessions(sessions') : loadSession(selected)
    /\ UNCHANGED <<kbVars, turnVars, askVars, callVars, exitVars, pc, resume, streamVars, disk, pending, now, saved>>

\* /clear
ClearHistory ==
    /\ pc = "prompt"
    /\ env.commands > 0
    /\ env' = [env EXCEPT !.commands = @ - 1]
    /\ IF currentSession # NoSession
       THEN /\ CanWrite
            /\ currentSession' = [currentSession EXCEPT !.messages = <<>>]
            /\ appended' = [fresh |-> FALSE, messages |-> <<>>]
            /\ saveSession
       ELSE UNCHANGED <<currentSession, appended, pending, saved>>
    /\ UNCHANGED <<kbVars, turnVars, askVars, callVars, exitVars, pc, resume, streamVars, sessions, disk, now, loaded>>

\* The session of that id is the current one.
IsCurrent(sessionId) == currentSession # NoSession /\ currentSession.id = sessionId

\* deleteSession(sessionId): the file is unlinked and the list read again;
\* false is returned, and nothing changed, where unlink throws.
deleteSession(sessionId) ==
    IF DeleteSucceeds(disk, sessionId)
    THEN /\ disk' = Remove(disk, sessionId)
         /\ saved' = Remove(saved, sessionId)
         /\ sessions' = loadSessionsList(disk')
         /\ deleted' = [id |-> sessionId, current |-> IsCurrent(sessionId),
                        returned |-> TRUE]
    ELSE /\ deleted' = [id |-> sessionId, current |-> IsCurrent(sessionId),
                        returned |-> FALSE]
         /\ UNCHANGED <<disk, saved, sessions>>

\* /delete: one of the other sessions is selected and deleted.
DeleteSession ==
    /\ pc = "prompt"
    /\ env.commands > 0
    /\ env' = [env EXCEPT !.commands = @ - 1]
    /\ IF OtherSessions(loadSessionsList(disk)) = {}
       THEN /\ sessions' = loadSessionsList(disk)
            /\ UNCHANGED <<disk, saved, deleted>>
       ELSE \E toDelete \in OtherSessions(loadSessionsList(disk)) :
                deleteSession(toDelete)
    /\ UNCHANGED <<kbVars, turnVars, askVars, recent, exitVars, pc, resume, streamVars>>
    /\ UNCHANGED <<currentSession, pending, now, appended, loaded>>

(***************************************************************************)
(* The SessionManager called on its own, between two turns of the loop or  *)
(* before the loop has started, with arguments of the caller's choice.     *)
(***************************************************************************)
\* The ids a caller may pass: those of the files and the names of the pool.
CallerIds == DOMAIN disk \cup env.names

\* getRecentMessages(count)
CallGetRecentMessages ==
    /\ pc \in {"start", "prompt"}
    /\ env.calls > 0
    /\ env' = [env EXCEPT !.calls = @ - 1]
    /\ \E count \in 0..MaxCount :
          recent' = [count |-> count, returned |-> getRecentMessages(count)]
    /\ UNCHANGED <<kbVars, turnVars, askVars, deleted, exitVars, pc, resume, streamVars, storeVars>>

\* loadSession(sessionId)
CallLoadSession ==
    /\ pc \in {"start", "prompt"}
    /\ env.calls > 0
    /\ env' = [env EXCEPT !.calls = @ - 1]
    /\ \E sessionId \in CallerIds : loadSession(sessionId)
    /\ UNCHANGED <<kbVars, turnVars, askVars, callVars, exitVars, pc, resume, streamVars>>
    /\ UNCHANGED <<sessions, disk, pending, now, saved>>

\* deleteSession(sessionId)
CallDeleteSession ==
    /\ pc \in {"start", "prompt"}
    /\ env.calls > 0
    /\ env' = [env EXCEPT !.calls = @ - 1]
    /\ \E sessionId \in CallerIds : deleteSession(sessionId)
    /\ UNCHANGED <<kbVars, turnVars, askVars, recent, exitVars, pc, resume, streamVars>>
    /\ UNCHANGED <<currentSession, pending, now, appended, loaded>>

\* process.exit(code): the process ends, and the writes in flight with it.
Exit(code) == [code |-> code]

processExit(code) ==
    /\ pc' = "exited"
    /\ pending' = {}
    /\ exitStatus' = Exit(code)

\* /quit and /exit: the session is saved, then the process exits.
Quit ==
    /\ pc = "prompt"
    /\ env.commands > 0
    /\ env' = [env EXCEPT !.commands = @ - 1]
    /\ UNCHANGED currentSession
    /\ IF currentSession # NoSession
       THEN CanWrite /\ awaitSaveSession("exiting")
       ELSE pc' = "exiting" /\ UNCHANGED <<resume, pending, saved>>
    /\ UNCHANGED <<kbVars, turnVars, askVars, callVars, exitVars, streamVars, sessions, disk, now, appended, loaded>>

\* process.exit(0): the process ends, and the writes in flight with it.
ProcessExit ==
    /\ pc = "exiting"
    /\ processExit(0)
    /\ UNCHANGED <<kbVars, turnVars, askVars, callVars, shutdownInProgress, escapeCount, resume, env,
                   streamVars>>
    /\ UNCHANGED <<currentSession, sessions, disk, now, appended, saved, loaded>>

(***************************************************************************)
(* index.js: the signals and the keys, and gracefulShutdown.               *)
(***************************************************************************)
\* gracefulShutdown with the forced exit reporting success.
ShutdownStatusAlwaysZero(inProgress) == IF inProgress THEN 0 ELSE 0

\* The status gracefulShutdown exits with at once: 1 when a shutdown is in
\* progress, 0 when saveSession has nothing to save.
ShutdownStatus(inProgress) == IF inProgress THEN 1 ELSE 0

\* gracefulShutdown(signal) up to its await: a shutdown in progress is
\* forced; else the flag is set and saveSession called, which returns at
\* once when there is no session.
gracefulShutdown ==
    IF shutdownInProgress \/ currentSession = NoSession
    THEN /\ processExit(ShutdownStatus(shutdownInProgress))
         /\ shutdownInProgress' = TRUE
         /\ UNCHANGED saved
    ELSE /\ CanWrite
         /\ shutdownInProgress' = TRUE
         /\ pending' = pending \cup {ShutdownWrite(currentSession)}
         /\ saved' = Remove(saved, currentSession.id)
         /\ UNCHANGED <<pc, exitStatus>>

\* process.on('SIGINT') and process.on('SIGTERM')
Signal ==
    /\ pc # "exited"
    /\ gracefulShutdown
    /\ UNCHANGED <<kbVars, turnVars, askVars, callVars, escapeCount, resume, env, streamVars>>
    /\ UNCHANGED <<currentSession, sessions, disk, now, appended, loaded>>

ESCAPE == "escape"
CTRL_C == "ctrl+c"
OTHER_KEY == "a"

\* handleKeypress(str, key)
HandleKeypress ==
    /\ pc # "exited"
    /\ \E key \in {ESCAPE, CTRL_C, OTHER_KEY} :
          IF key = ESCAPE /\ escapeCount = 0
          THEN /\ escapeCount' = escapeCount + 1
               /\ UNCHANGED <<pc, pending, saved, shutdownInProgress, exitStatus>>
          ELSE IF key = ESCAPE
          THEN escapeCount' = 0 /\ gracefulShutdown
          ELSE IF key = CTRL_C
          THEN gracefulShutdown /\ UNCHANGED escapeCount
          ELSE /\ escapeCount' = 0
               /\ UNCHANGED <<pc, pending, saved, shutdownInProgress, exitStatus>>
    /\ UNCHANGED <<kbVars, turnVars, askVars, callVars, resume, env, streamVars>>
    /\ UNCHANGED <<currentSession, sessions, disk, now, appended, loaded>>

\* The timer of the first ESC, 2 seconds after it.
EscapeTimer ==
    /\ pc # "exited"
    /\ escapeCount = 1
    /\ escapeCount' = 0
    /\ UNCHANGED <<kbVars, turnVars, askVars, callVars, shutdownInProgress, exitStatus, pc, resume, env,
                   streamVars, storeVars>>

\* The saveSession of gracefulShutdown is done: process.exit(0).
ShutdownSaved ==
    \E w \in pending :
        /\ w.shutdown
        /\ w.opened
        /\ disk' = IF w.id \in DOMAIN disk
                   THEN Put(disk, w.id, Overwrite(disk[w.id], w.data))
                   ELSE disk
        /\ saved' = Put(saved, w.id, w.session)
        /\ processExit(0)
        /\ UNCHANGED <<kbVars, turnVars, askVars, callVars, shutdownInProgress, escapeCount, resume, env,
                       streamVars>>
        /\ UNCHANGED <<currentSession, sessions, now, appended, loaded>>

\* The saveSession of gracefulShutdown throws: the catch, process.exit(0).
ShutdownSaveFails ==
    \E w \in pending :
        /\ w.shutdown
        /\ env.failures > 0
        /\ env' = [env EXCEPT !.failures = @ - 1]
        /\ processExit(0)
        /\ UNCHANGED <<kbVars, turnVars, askVars, callVars, shutdownInProgress, escapeCount, resume,
                       streamVars>>
        /\ UNCHANGED <<currentSession, sessions, disk, now, appended, saved, loaded>>

(***************************************************************************)
(* TaxGPT.safePrompt: a prompt the user aborts, and an awaited saveSession  *)
(* that throws.                                                             *)
(***************************************************************************)
\* inquirer.prompt throws ExitPromptError at the starter prompt or at the
\* prompt of the loop: the catch of safePrompt up to its await of saveSession.
PromptAborted ==
    /\ pc \in {"starter", "prompt"}
    /\ UNCHANGED currentSession
    /\ IF currentSession # NoSession
       THEN CanWrite /\ awaitSaveSession("goodbye")
       ELSE pc' = "goodbye" /\ UNCHANGED <<resume, pending, saved>>
    /\ UNCHANGED <<kbVars, turnVars, askVars, callVars, exitVars, env, streamVars>>
    /\ UNCHANGED <<sessions, disk, now, appended, loaded>>

\* safePrompt after its await: Goodbye! and process.exit(0).
Goodbye ==
    /\ pc = "goodbye"
    /\ processExit(0)
    /\ UNCHANGED <<kbVars, turnVars, askVars, callVars, shutdownInProgress, escapeCount,
                   resume, env, streamVars>>
    /\ UNCHANGED <<currentSession, sessions, disk, now, appended, saved, loaded>>

\* The fs.writeFile of an awaited saveSession throws: nothing between the
\* await and main catches the error, and main().catch exits with 1.
AwaitedWriteFails ==
    \E w \in pending :
        /\ w.awaited
        /\ ~w.shutdown
        /\ pc = "saving"
        /\ env.failures > 0
        /\ env' = [env EXCEPT !.failures = @ - 1]
        /\ processExit(1)
        /\ UNCHANGED <<kbVars, turnVars, askVars, callVars, shutdownInProgress, escapeCount,
                       resume, streamVars>>
        /\ UNCHANGED <<currentSession, sessions, disk, now, appended, saved, loaded>>

(***************************************************************************)
(* The user and the clock.                                                 *)
(***************************************************************************)
\* The program is started again: a new process over the same directory.
Restart ==
    /\ pc = "exited"
    /\ env.restarts > 0
    /\ env' = [env EXCEPT !.restarts = @ - 1]
    /\ pc' = "start"
    /\ resume' = "start"
    /\ currentSession' = NoSession
    /\ sessions' = <<>>
    /\ pending' = {}
    /\ stream' = <<>>
    /\ fullContent' = <<>>
    /\ lines' = <<>>
    /\ currentLine' = <<>>
    /\ sink' = <<>>
    /\ arrived' = <<>>
    /\ appended' = NothingAppended
    /\ loaded' = NoLoad
    /\ question' = NoQuestion
    /\ request' = NoRequest
    /\ recent' = NoCall
    /\ deleted' = NoCall
    /\ shutdownInProgress' = FALSE
    /\ escapeCount' = 0
    /\ exitStatus' = NoExit
    /\ before' = <<>>
    /\ shown' = NothingShown
    /\ UNCHANGED <<kbVars, disk, now, saved>>

\* A second goes by while the program waits for the user, or is not running.
SecondPasses ==
    /\ pc \in {"prompt", "exited"}
    /\ env.seconds > 0
    /\ env' = [env EXCEPT !.seconds = @ - 1]
    /\ now' = NextSecond(now)
    /\ UNCHANGED <<kbVars, turnVars, askVars, callVars, exitVars, pc, resume, streamVars>>
    /\ UNCHANGED <<currentSession, sessions, disk, pending, appended, saved, loaded>>

(***************************************************************************)
(* The program: main, with the user typing questions and commands and the  *)
(* completion service answering.                                           *)
(***************************************************************************)
QUESTION_RATE == <<"r", "a", "t", "e", "?">>
SESSION_NAME == <<"t", "a", "x">>

\* The stream of the example of the renderer, one with chunks that carry
\* no text, and a table.
REPLY_EXAMPLE ==
    <<Delta(<<"H", "e", "l", "l", "o", SP>>), Delta(<<"w", "o", "r">>), Delta(<<"l", "d", NL>>), Delta(<<"R", "a", "t", "e", ":", SP>>), Delta(<<"2", "2", "%">>)>>
REPLY_GAPS == <<NO_CONTENT, Delta(<<"a", QUOTE, BACKSLASH, "n">>), Delta(<<>>), Delta(<<NL, "b">>)>>
REPLY_TABLE == <<Delta(<<"|", "a", "|", "b", "|", NL, "|", "-", "|">>), Delta(<<"-", "|", NL, "|", "1", "|", "2", "|">>)>>

KnowledgeBaseNotLoaded ==
    /\ knowledgeBase = <<>>
    /\ chunkSize = 1
    /\ chunks = <<>>
    /\ kbLoaded = FALSE
    /\ asked = FALSE
    /\ query = <<>>
    /\ maxChunks = 0
    /\ scored = <<>>
    /\ relevant = <<>>

REPLY_POOL == <<REPLY_GAPS, REPLY_TABLE>>

\* The streams the completion service delivers, in the order of the calls.
ReplyScript(n) == [i \in 1..n |-> REPLY_POOL[((i - 1) % Len(REPLY_POOL)) + 1]]

ProgramEnv ==
    [turns |-> MaxTurns, commands |-> MaxCommands, failures |-> MaxFailures,
     restarts |-> MaxRestarts, seconds |-> MaxSeconds, calls |-> 0, maxPending |-> MaxPending,
     questions |-> {QUESTION_RATE}, names |-> {SESSION_NAME},
     replies |-> ReplyScript(MaxTurns + MaxRestarts + 1)]

Init ==
    /\ Constructed
    /\ KnowledgeBaseNotLoaded
    /\ now = StartOfTime
    /\ disk = EmptyDir
    /\ env = ProgramEnv

Next ==
    \/ Startup
    \/ Welcome
    \/ AskSucceeds
    \/ AskFails
    \/ StreamDelta
    \/ StreamEnds
    \/ StreamFails
    \/ Starter
    \/ UserTurn
    \/ NewSession
    \/ SwitchSession
    \/ ClearHistory
    \/ Quit
    \/ ProcessExit
    \/ Restart
    \/ SecondPasses
    \/ WriteOpens
    \/ WriteLands
    \/ AwaitedWriteLands

Spec == Init /\ [][Next]_vars

(***************************************************************************)
(* The program over a long conversation: the history outgrows its cap.     *)
(***************************************************************************)
REPLY_SHORT == <<Delta(<<"o", "k">>)>>

HistoryEnv ==
    [turns |-> MaxHistoryTurns, commands |-> 0, failures |-> 0, restarts |-> 0,
     seconds |-> 0, calls |-> 0, maxPending |-> MaxHistoryPending,
     questions |-> {QUESTION_RATE}, names |-> {},
     replies |-> [i \in 1..(MaxHistoryTurns + 1) |-> REPLY_SHORT]]

InitHistory ==
    /\ Constructed
    /\ KnowledgeBaseNotLoaded
    /\ now = StartOfTime
    /\ disk = EmptyDir
    /\ env = HistoryEnv

NextHistory ==
    \/ Startup
    \/ Welcome
    \/ AskSucceeds
    \/ StreamDelta
    \/ StreamEnds
    \/ Starter
    \/ UserTurn
    \/ WriteOpens
    \/ WriteLands
    \/ AwaitedWriteLands

SpecHistory == InitHistory /\ [][NextHistory]_vars

(***************************************************************************)
(* The program over a directory that holds the file of an earlier run, a   *)
(* session with a full history: sessions are created, loaded, appended to  *)
(* and cleared.                                                            *)
(***************************************************************************)
\* The session file an earlier run of the program left: a conversation of
\* n messages, the user and the assistant in turn.
RECURSIVE Conversation(_, _)
Conversation(session, n) ==
    IF n = 0 THEN session
    ELSE PushMessage(Conversation(session, n - 1),
             [role |-> IF n % 2 = 1 THEN USER ELSE ASSISTANT,
              content |-> IF n % 2 = 1 THEN QUESTION_RATE ELSE <<"o", "k">>,
              timestamp |-> toISOString([sec |-> 0, ms |-> n + 1])])

EARLIER_NAME == <<"o", "l", "d">>

EarlierSession ==
    Conversation(NewSessionObject(EARLIER_NAME, StartOfTime, Tick(StartOfTime)),
                 MAX_HISTORY_TURNS * 2)

EarlierDir == Put(EmptyDir, EarlierSession.id, JSONstringify(EarlierSession))

SessionsEnv ==
    [turns |-> MaxSessionTurns, commands |-> MaxSessionCommands, failures |-> 0,
     restarts |-> 0, seconds |-> 0, calls |-> 0, maxPending |-> MaxSessionPending,
     questions |-> {QUESTION_RATE}, names |-> {SESSION_NAME},
     replies |-> [i \in 1..(MaxSessionTurns + 1) |-> REPLY_SHORT]]

InitSessions ==
    /\ Constructed
    /\ KnowledgeBaseNotLoaded
    /\ now = NextSecond(StartOfTime)
    /\ disk = EarlierDir
    /\ env = SessionsEnv

NextSessions ==
    \/ Startup
    \/ Welcome
    \/ AskSucceeds
    \/ StreamDelta
    \/ StreamEnds
    \/ Starter
    \/ UserTurn
    \/ NewSession
    \/ SwitchSession
    \/ ClearHistory
    \/ WriteOpens
    \/ WriteLands
    \/ AwaitedWriteLands

SpecSessions == InitSessions /\ [][NextSessions]_vars

\* C1: the current session never holds more than 2 x MAX_HISTORY_TURNS
\* messages, whatever was created, loaded, appended and cleared.
C1_HistoryCapped ==
    currentSession # NoSession =>
        Len(currentSession.messages) <= 2 * MAX_HISTORY_TURNS

\* C1's case: a session with a full history was loaded and a message was
\* appended to it, so that the oldest one had to go.
C1_Witness ==
    /\ loaded # NoLoad
    /\ loaded.returned.ok
    /\ Len(loaded.returned.value.messages) = 2 * MAX_HISTORY_TURNS
    /\ currentSession # NoSession
    /\ currentSession.id = loaded.id
    /\ ~appended.fresh
    /\ appended.messages # <<>>
    /\ Len(currentSession.messages) = 2 * MAX_HISTORY_TURNS

\* C2: after n calls of addMessage on a freshly created session the stored
\* messages are the last min(n, 20) appended messages, in the order in which
\* they were appended.
C2_LastMessagesKept ==
    (currentSession # NoSession /\ appended.fresh) =>
        LET n == Len(appended.messages)
            kept == Min(n, 2 * MAX_HISTORY_TURNS)
        IN  currentSession.messages = SubSeq(appended.messages, n - kept + 1, n)

\* C2's case: 25 pairs of a question and its answer were appended to a
\* fresh session, and the 10 most recent pairs are stored.
C2_Witness ==
    /\ currentSession # NoSession
    /\ appended.fresh
    /\ Len(appended.messages) >= 50
    /\ Len(currentSession.messages) = 2 * MAX_HISTORY_TURNS
    /\ \A i \in 1..MAX_HISTORY_TURNS :
          /\ currentSession.messages[2 * i - 1].role = USER
          /\ currentSession.messages[2 * i].role = ASSISTANT

(***************************************************************************)
(* The program answering one question, over the streams the completion     *)
(* service may deliver.                                                    *)
(***************************************************************************)
DeltaPool ==
    {NO_CONTENT, Delta(<<>>), Delta(<<"a", "b">>), Delta(<<"c", NL>>), Delta(<<"|", NL, NL, "d">>)}

Streams == SeqsUpTo(DeltaPool, MaxDeltas) \cup {REPLY_EXAMPLE}

StreamEnv(reply) ==
    [turns |-> MaxStreamTurns, commands |-> 0, failures |-> 0, restarts |-> 0,
     seconds |-> 0, calls |-> 0, maxPending |-> MaxStreamPending,
     questions |-> {QUESTION_RATE}, names |-> {},
     replies |-> <<REPLY_SHORT>> \o [i \in 1..MaxStreamTurns |-> reply]]

InitStream ==
    /\ Constructed
    /\ KnowledgeBaseNotLoaded
    /\ now = StartOfTime
    /\ disk = EmptyDir
    /\ env \in {StreamEnv(reply) : reply \in Streams}

NextStream ==
    \/ Startup
    \/ Welcome
    \/ AskSucceeds
    \/ StreamDelta
    \/ StreamEnds
    \/ Starter
    \/ UserTurn
    \/ WriteOpens
    \/ WriteLands
    \/ AwaitedWriteLands

SpecStream == InitStream /\ [][NextStream]_vars

\* The concatenation, in the order of arrival, of the texts of the deltas
\* that have one.
ArrivedText ==
    Concat(SelectSeq([i \in DOMAIN arrived |-> arrived[i].text],
                     LAMBDA text : text # <<>>))

\* C10: the text streamResponse accumulates, and returns when the stream
\* ends, is the concatenation in arrival order of the non-empty deltas, and
\* that text is the content of the assistant message appended to the session.
C10_ReturnsConcatenation ==
    /\ [](pc = "streaming" => fullContent = ArrivedText)
    /\ [][StreamEnds =>
            LET last == currentSession'.messages[Len(currentSession'.messages)]
            IN  /\ last.role = ASSISTANT
                /\ last.content = ArrivedText
                /\ appended'.messages = Append(appended.messages, last)]_vars

\* C10's case: the stream of the example has been answered to a question.
C10_Witness ==
    /\ pc = "prompt"
    /\ arrived = REPLY_EXAMPLE
    /\ currentSession # NoSession
    /\ Len(currentSession.messages) = 3
    /\ currentSession.messages[2].role = USER
    /\ currentSession.messages[3].role = ASSISTANT
    /\ currentSession.messages[3].content = <<"H", "e", "l", "l", "o", SP, "w", "o", "r", "l", "d", NL, "R", "a", "t", "e", ":", SP, "2", "2", "%">>

\* C3 (as claimed): loadSession of an id that an awaited saveSession wrote,
\* and that no saveSession was called for since, returns the session that
\* was saved, equal field by field.
C3_RoundTrip ==
    (loaded # NoLoad /\ loaded.wasSaved) =>
        /\ loaded.returned.ok
        /\ loaded.returned.value = loaded.expected

\* C4 (as claimed): when every write that was issued has completed, the
\* file of the current session holds the current session.
C4_EventuallyPersisted ==
    (currentSession # NoSession /\ pc # "exited" /\ pending = {}) =>
        /\ currentSession.id \in DOMAIN disk
        /\ JSONparse(disk[currentSession.id]) = [ok |-> TRUE, value |-> currentSession]

\* The text of every write parses back to the session it was made from.
StoredTextsParseBack ==
    \A w \in pending : JSONparse(w.data) = [ok |-> TRUE, value |-> w.session]

\* The raw lines written to the sink, in the order in which they were.
LineTexts(out) ==
    LET written == SelectSeq(out, LAMBDA e : e.op = "line")
    IN  [i \in DOMAIN written |-> written[i].text]

\* C11: after the step of every delta the lines written are the
\* newline-terminated lines of the text received so far, each once and in
\* order, and the unterminated rest is the partial line; the step that ends
\* the stream writes a non-empty rest once, so that the lines written are
\* the text split on newlines without a trailing empty segment.
C11_LinesWrittenOnceInOrder ==
    /\ [](pc = "streaming" =>
            LET parts == Split(fullContent, <<NL>>)
            IN  /\ LineTexts(sink) = Take(parts, Len(parts) - 1)
                /\ lines = LineTexts(sink)
                /\ currentLine = parts[Len(parts)])
    /\ [][StreamEnds =>
            LET parts == Split(fullContent, <<NL>>)
            IN  LineTexts(sink') = IF parts[Len(parts)] = <<>>
                                   THEN Take(parts, Len(parts) - 1)
                                   ELSE parts]_vars

\* C11's case: the stream of the example has ended; its first line was
\* written when its newline arrived and its rest when the stream ended.
C11_Witness ==
    /\ pc = "prompt"
    /\ arrived = REPLY_EXAMPLE
    /\ LineTexts(sink) = <<<<"H", "e", "l", "l", "o", SP, "w", "o", "r", "l", "d">>, <<"R", "a", "t", "e", ":", SP, "2", "2", "%">>>>

(***************************************************************************)
(* The program streaming one greeting in Markdown, over texts of up to     *)
(* MaxTableLines lines.                                                    *)
(***************************************************************************)
LINE_HEADER == <<"|", SP, "A", SP, "|", SP, "B", SP, "|">>
LINE_SEPARATOR == <<"|", "-", "-", "-", "|", "-", "-", "-", "|">>
LINE_BODY == <<"|", SP, "1", SP, "|", SP, "2", SP, "|">>
LINE_INDENTED == <<SP, "|", SP, "3", "0", "0", SP, "|">>
LINE_PLAIN == <<"5", "%">>

MarkdownLines == {LINE_HEADER, LINE_SEPARATOR, LINE_BODY, LINE_INDENTED, LINE_PLAIN}

MarkdownTexts ==
    {Join(ls, <<NL>>) : ls \in SeqsUpTo(MarkdownLines, MaxTableLines) \ {<<>>}}

RenderEnv(text) ==
    [turns |-> 0, commands |-> 0, failures |-> 0, restarts |-> 0,
     seconds |-> 0, calls |-> 0, maxPending |-> MaxRenderPending,
     questions |-> {}, names |-> {},
     replies |-> <<<<Delta(text)>>>>]

InitRender ==
    /\ Constructed
    /\ KnowledgeBaseNotLoaded
    /\ now = StartOfTime
    /\ disk = EmptyDir
    /\ env \in {RenderEnv(text) : text \in MarkdownTexts}

NextRender ==
    \/ Startup
    \/ Welcome
    \/ AskSucceeds
    \/ StreamDelta
    \/ StreamEnds
    \/ WriteOpens
    \/ WriteLands
    \/ AwaitedWriteLands

SpecRender == InitRender /\ [][NextRender]_vars

\* The cells between the outer pipes of a line that starts with a pipe.
CellsBetweenPipes(line) ==
    LET pieces == Split(Trim(line), <<PIPE>>)
    IN  [i \in 1..(Len(pieces) - 2) |-> Trim(pieces[i + 1])]

\* The cells between the vertical bars of a line of a rendered table, as
\* they show on the terminal.
CellsBetweenBars(line) ==
    LET pieces == Split(StripAnsi(line), <<BOX_VERTICAL>>)
    IN  [i \in 1..(Len(pieces) - 2) |-> Trim(pieces[i + 1])]

StartsWithPipe(line) == Trim(line) # <<>> /\ Head(Trim(line)) = PIPE

OnlyDashesAndColons(cells) ==
    \A i \in DOMAIN cells :
        cells[i] # <<>> /\ \A k \in DOMAIN cells[i] : cells[i][k] \in {"-", ":"}

\* The rows of a block of pipe lines that are not separator rows, in order.
NonSeparatorRows(block) ==
    SelectSeq([i \in DOMAIN block |-> CellsBetweenPipes(block[i])],
              LAMBDA cells : ~OnlyDashesAndColons(cells))

HasSeparatorRow(block) ==
    \E i \in DOMAIN block : OnlyDashesAndColons(CellsBetweenPipes(block[i]))

\* Every line formatted on its own, one after the other.
RECURSIVE PlainLines(_)
PlainLines(block) ==
    IF block = <<>> THEN <<>>
    ELSE formatLine(Head(block)) \o <<NL>> \o PlainLines(Tail(block))

\* The text is one table: a blank line, the top border, the header row in
\* bold, the border that crosses the columns, the data rows, the bottom
\* border.
ShowsTable(text, header, body) ==
    LET out == Split(text, <<NL>>)
    IN  /\ Len(out) = Len(body) + 6
        /\ out[1] = <<>>
        /\ Includes(out[2], <<BOX_DOWN>>) \/ Len(header) = 1
        /\ CellsBetweenBars(out[3]) = header
        /\ Includes(out[3], <<BOLD_ON>>)
        /\ Includes(out[4], <<BOX_CROSS>>) \/ Len(header) = 1
        /\ \A i \in DOMAIN body :
              /\ CellsBetweenBars(out[4 + i]) = body[i]
              /\ ~Includes(out[4 + i], <<BOLD_ON>>)
        /\ ~Includes(out[Len(body) + 5], <<BOX_VERTICAL>>)
        /\ out[Len(body) + 6] = <<>>

\* What the step that ends the stream prints in place of the lines.
Reprinted(out) == out[Len(out)].text

\* C12: a text that is a block of at least 2 lines starting with a pipe,
\* with a separator row and at least a header and a body row, is printed as
\* one table whose header is the first row that is not a separator and whose
\* data rows are the other rows that are not separators, in order; a text of
\* lines among which no two neighbours start with a pipe is printed line by
\* line, each as formatLine gives it.
C12_TablesOfPipeBlocks ==
    [][StreamEnds /\ Includes(fullContent, <<PIPE>>) =>
          LET block == Split(fullContent, <<NL>>)
              rows == NonSeparatorRows(block)
          IN  /\ ( /\ Len(block) >= 2
                   /\ \A i \in DOMAIN block : StartsWithPipe(block[i])
                   /\ HasSeparatorRow(block)
                   /\ Len(rows) >= 2 )
                    => ShowsTable(Reprinted(sink'), rows[1], Tail(rows))
              /\ (\A i \in 1..(Len(block) - 1) :
                     ~(StartsWithPipe(block[i]) /\ StartsWithPipe(block[i + 1])))
                    => Reprinted(sink') = PlainLines(block)]_vars

\* C12's case: the three lines of the example were streamed and reprinted
\* as the table with header A, B and the one data row 1, 2.
C12_Witness ==
    /\ arrived = <<Delta(Join(<<LINE_HEADER, LINE_SEPARATOR, LINE_BODY>>, <<NL>>))>>
    /\ sink # <<>>
    /\ sink[Len(sink)].op = "render"
    /\ ShowsTable(Reprinted(sink), <<<<"A">>, <<"B">>>>, <<<<<<"1">>, <<"2">>>>>>)

\* C13 (as claimed): a block of pipe lines of which fewer than 2 rows are
\* left once the separator rows are discarded is not printed as a table but
\* line by line.
C13_ShortBlockIsPlain ==
    [][StreamEnds /\ Includes(fullContent, <<PIPE>>) =>
          LET block == Split(fullContent, <<NL>>)
          IN  ( /\ \A i \in DOMAIN block : StartsWithPipe(block[i])
                /\ Len(NonSeparatorRows(block)) < 2 )
                  => Reprinted(sink') = PlainLines(block)]_vars

(***************************************************************************)
(* The SessionManager of a process that finds the file of an earlier       *)
(* session, is asked up to MaxManagerTurns questions and one command, and  *)
(* has its methods called with counts up to MaxCount and with the ids of   *)
(* the files and of no file.                                               *)
(***************************************************************************)
MISSING_NAME == <<"g", "o", "n", "e">>

ManagerEnv ==
    [turns |-> MaxManagerTurns, commands |-> MaxManagerCommands, failures |-> 0,
     restarts |-> 0, seconds |-> 0, calls |-> MaxManagerCalls,
     maxPending |-> MaxManagerPending,
     questions |-> {QUESTION_RATE}, names |-> {MISSING_NAME},
     replies |-> [i \in 1..(MaxManagerTurns + 1) |-> REPLY_SHORT]]

InitManager ==
    /\ Constructed
    /\ KnowledgeBaseNotLoaded
    /\ now = NextSecond(StartOfTime)
    /\ disk = EarlierDir
    /\ env = ManagerEnv

NextManager ==
    \/ Startup
    \/ Welcome
    \/ AskSucceeds
    \/ StreamDelta
    \/ StreamEnds
    \/ Starter
    \/ UserTurn
    \/ SwitchSession
    \/ DeleteSession
    \/ CallGetRecentMessages
    \/ CallLoadSession
    \/ CallDeleteSession
    \/ WriteOpens
    \/ WriteLands
    \/ AwaitedWriteLands

SpecManager == InitManager /\ [][NextManager]_vars

\* C14 (as claimed): getRecentMessages(count) returns the last
\* min(2 x count, n) of the n messages of the current session, in their
\* order, for every count from 0 on, and the empty sequence when there is no
\* current session.
C14_LastMessagesReturned ==
    [][CallGetRecentMessages =>
          IF currentSession = NoSession THEN recent'.returned = <<>>
          ELSE LET n == Len(currentSession.messages)
                   k == Min(2 * recent'.count, n)
               IN  recent'.returned = SubSeq(currentSession.messages, n - k + 1, n)]_vars

\* C15 (as claimed): after every addMessage on a current session, totalTurns
\* is the number of user messages among the messages as they are stored
\* after the call.
C15_TotalTurnsCountsStored ==
    [][(StreamEnds \/ Starter \/ UserTurn) /\ appended'.messages # appended.messages =>
          currentSession'.metadata.totalTurns
              = Len(SelectSeq(currentSession'.messages, LAMBDA m : m.role = USER))]_vars

\* C16: loadSession(id), called on its own or by /switch, returns null and
\* leaves the current session and the sessions list as they were when the
\* file of id is missing or does not parse; when the file is there and
\* parses, the session it holds becomes the current session.
C16_LoadSessionNullOrCurrent ==
    [][(CallLoadSession \/ (SwitchSession /\ sessions' # <<>>)) =>
          LET id == loaded'.id
          IN  IF id \in DOMAIN disk /\ JSONparse(disk[id]).ok
              THEN /\ loaded'.returned.ok
                   /\ currentSession' = loaded'.returned.value
                   /\ JSONstringify(currentSession') = disk[id]
              ELSE /\ ~loaded'.returned.ok
                   /\ currentSession' = currentSession
                   /\ sessions' = IF SwitchSession THEN loadSessionsList(disk)
                                  ELSE sessions]_vars

\* C16's case: loadSession was called with the id of no file and returned
\* null, and the session the process created is still current.
C16_Witness ==
    /\ loaded # NoLoad
    /\ loaded.id = MISSING_NAME
    /\ MISSING_NAME \notin DOMAIN disk
    /\ ~loaded.returned.ok
    /\ currentSession # NoSession
    /\ currentSession.id # MISSING_NAME
    /\ Len(currentSession.messages) > 0

\* C17 (as claimed): createSession, at the start of the first run or by /new
\* with or without a name, gives the new session an id that is the id of no
\* session file.
C17_NewIdIsFresh ==
    [][(NewSession \/ (Startup /\ currentSession = NoSession)) =>
          currentSession'.id \notin DOMAIN disk]_vars

\* C18: deleteSession(id) for an id that has no file returns false, leaves
\* the current session and every file as they were, and a listing read then
\* does not hold id.
C18_DeleteOfMissingFile ==
    [][CallDeleteSession /\ deleted'.id \notin DOMAIN disk =>
          /\ deleted'.returned = FALSE
          /\ currentSession' = currentSession
          /\ disk' = disk
          /\ \A i \in DOMAIN loadSessionsList(disk') :
                loadSessionsList(disk')[i] # deleted'.id]_vars

\* C18's case: deleteSession was called with the id of no file, while
\* another session has its file and a session with messages is current.
C18_Witness ==
    /\ deleted # NoCall
    /\ deleted.id = MISSING_NAME
    /\ deleted.returned = FALSE
    /\ EARLIER_NAME \in DOMAIN disk
    /\ currentSession # NoSession
    /\ Len(currentSession.messages) > 0

\* C19 (as claimed): for every question the loop passes to askQuestion,
\* isFirstMessage is true exactly when the session holds no message before
\* that question, and exactly then the system prompt has the opening
\* greeting block.
C19_FirstTurnIffNoPriorMessage ==
    [][(AskSucceeds \/ AskFails) =>
          LET prior == Len(currentSession.messages) - (IF question.stored THEN 1 ELSE 0)
          IN  /\ request'.isFirstMessage = (prior = 0)
              /\ Includes(request'.messages[1].content, <<OPENING_GREETING>>)
                    = (prior = 0)]_vars

(***************************************************************************)
(* The program interrupted: one question at most, signals and keys at any  *)
(* moment, and a save of the shutdown that may fail.                       *)
(***************************************************************************)
ShutdownEnv ==
    [turns |-> MaxShutdownTurns, commands |-> 0, failures |-> MaxShutdownFailures,
     restarts |-> 0, seconds |-> 0, calls |-> 0, maxPending |-> MaxShutdownPending,
     questions |-> {QUESTION_RATE}, names |-> {},
     replies |-> [i \in 1..(MaxShutdownTurns + 1) |-> REPLY_SHORT]]

InitShutdown ==
    /\ Constructed
    /\ KnowledgeBaseNotLoaded
    /\ now = StartOfTime
    /\ disk = EmptyDir
    /\ env = ShutdownEnv

NextShutdown ==
    \/ Startup
    \/ Welcome
    \/ AskSucceeds
    \/ StreamDelta
    \/ StreamEnds
    \/ Starter
    \/ UserTurn
    \/ Signal
    \/ HandleKeypress
    \/ EscapeTimer
    \/ ShutdownSaved
    \/ ShutdownSaveFails
    \/ WriteOpens
    \/ WriteLands
    \/ AwaitedWriteLands

SpecShutdown == InitShutdown /\ [][NextShutdown]_vars

\* The writes of the saveSession that gracefulShutdown called.
ShutdownWrites(writes) == {w \in writes : w.shutdown}

FailureEnv ==
    [turns |-> MaxSessionTurns, commands |-> MaxSessionCommands, failures |-> MaxFailures,
     restarts |-> 0, seconds |-> 0, calls |-> 0, maxPending |-> MaxSessionPending,
     questions |-> {QUESTION_RATE}, names |-> {},
     replies |-> [i \in 1..(MaxSessionTurns + 1) |-> REPLY_SHORT]]

InitFailure ==
    /\ Constructed
    /\ KnowledgeBaseNotLoaded
    /\ now = NextSecond(StartOfTime)
    /\ disk = EarlierDir
    /\ env = FailureEnv

NextFailure ==
    \/ Startup
    \/ Welcome
    \/ AskSucceeds
    \/ AskFails
    \/ StreamDelta
    \/ StreamEnds
    \/ StreamFails
    \/ Starter
    \/ UserTurn
    \/ SwitchSession
    \/ WriteOpens
    \/ WriteLands
    \/ AwaitedWriteLands

SpecFailure == InitFailure /\ [][NextFailure]_vars

\* The step in which the completion call of the turn at hand fails, in
\* askQuestion or while its stream is read.
TurnFails ==
    /\ pc \in {"asking", "streaming"}
    /\ env'.failures = env.failures - 1

\* The failed turn ends in the catch: the error is printed and the program
\* waits for the next input.
ErrorShownAndLoopGoesOn ==
    /\ ~shown'.null
    /\ shown'.message[Len(shown'.message)] = COMPLETION_ERROR
    /\ pc' \in {"starter", "prompt"}
    /\ exitStatus' = NoExit
    /\ currentSession' # NoSession

\* The messages of a sequence, from position from on, are in the session
\* after the step, in their order and next to each other.
StillInSession(messages, from) ==
    \E shift \in 0..Len(currentSession'.messages) :
        \A i \in from..Len(messages) :
            /\ i - from + 1 + shift \in DOMAIN currentSession'.messages
            /\ currentSession'.messages[i - from + 1 + shift] = messages[i]

NextAbort ==
    \/ Startup
    \/ Welcome
    \/ AskSucceeds
    \/ StreamDelta
    \/ StreamEnds
    \/ Starter
    \/ UserTurn
    \/ PromptAborted
    \/ Goodbye
    \/ AwaitedWriteFails
    \/ WriteOpens
    \/ WriteLands
    \/ AwaitedWriteLands

SpecAbort == InitShutdown /\ [][NextAbort]_vars

\* C22: an aborted prompt saves the current session once, ignores a failure
\* of that save, and exits with status 0, as gracefulShutdown does.
C22_AbortExitsWithZero ==
    /\ [][(pc \in {"starter", "prompt"} /\ pc' = "saving") =>
             /\ resume' = "goodbye"
             /\ \E w \in pending' \ pending :
                   /\ w.session = currentSession
                   /\ pending' = pending \cup {w}]_vars
    /\ [][(resume = "goodbye" /\ pc \in {"saving", "goodbye"} /\ pc' = "exited") =>
             exitStatus' = Exit(0)]_vars

\* What streamResponse wrote to move the cursor and to print the text anew.
CursorOps(out) == SelectSeq(out, LAMBDA e : e.op \in {"up", "clear", "render"})

\* The number of terminal lines a write of streamResponse ends: the label is
\* written between two newlines, a line of the text with one after it.
LinesEmitted(out) ==
    2 * Cardinality({i \in DOMAIN out : out[i].op = "label"})
        + Cardinality({i \in DOMAIN out : out[i].op = "line"})

\* C23: streamResponse renders the text anew exactly when the text received
\* holds a '|': once, after the last delta and the flush of the partial
\* line, by moving the cursor up by the number of lines written for this
\* response, clearing downward and printing renderMarkdown of the whole
\* text; with no '|' in the text the cursor is never moved.
C23_RetroactiveRender ==
    /\ [](pc = "streaming" => CursorOps(sink) = <<>>)
    /\ [][StreamEnds =>
            LET n == Len(sink')
                parts == Split(fullContent, <<NL>>)
            IN  IF Includes(fullContent, <<"|">>)
                THEN /\ n >= 4
                     /\ CursorOps(sink') = SubSeq(sink', n - 2, n)
                     /\ sink'[n - 2].op = "up"
                     /\ FromDigits(sink'[n - 2].text) = LinesEmitted(Take(sink', n - 3))
                     /\ sink'[n - 1].op = "clear"
                     /\ sink'[n].op = "render"
                     /\ sink'[n].text = renderMarkdown(fullContent)
                     /\ LineTexts(Take(sink', n - 3)) =
                            IF parts[Len(parts)] = <<>> THEN Take(parts, Len(parts) - 1)
                            ELSE parts
                ELSE CursorOps(sink') = <<>>]_vars

\* C23's case: a response with a '|' and an unterminated last line has
\* ended; the label and three lines were written, the cursor went up by
\* five lines and the text was printed anew.
C23_Witness ==
    /\ pc = "prompt"
    /\ Len(sink) = 7
    /\ sink[1].op = "label"
    /\ sink[2] = Line(<<"|">>)
    /\ sink[3] = Line(<<>>)
    /\ sink[4] = Line(<<"d">>)
    /\ sink[5].op = "up"
    /\ FromDigits(sink[5].text) = 5
    /\ sink[6].op = "clear"
    /\ sink[7].op = "render"

\* One sequence is what is left of another when messages are taken from its
\* front.
IsSuffixOf(kept, all) ==
    /\ Len(kept) <= Len(all)
    /\ kept = Drop(all, Len(all) - Len(kept))

\* C24: messages are immutable once appended.  A step that changes the
\* messages of the current session either starts from none (a session
\* created or cleared), or takes them from the file it loads, or appends at
\* the back what addMessage was passed and removes at most from the front;
\* and the newest messages of the session are, field by field, the messages
\* passed to addMessage since it was created, loaded or cleared.
C24_MessagesImmutable ==
    /\ [](currentSession # NoSession =>
            LET stored == currentSession.messages
                n == Min(Len(stored), Len(appended.messages))
            IN  /\ SliceLast(stored, n) = SliceLast(appended.messages, n)
                /\ appended.fresh => IsSuffixOf(stored, appended.messages))
    /\ [][(currentSession' # NoSession /\ currentSession # NoSession
             /\ currentSession'.messages # currentSession.messages) =>
            LET old == currentSession.messages
                new == currentSession'.messages
            IN  \/ new = <<>>
                \/ /\ loaded' # loaded
                   /\ loaded'.returned.ok
                   /\ JSONparse(disk[loaded'.id]).value.messages = new
                \/ /\ currentSession'.id = currentSession.id
                   /\ appended'.messages = Append(appended.messages, new[Len(new)])
                   /\ IsSuffixOf(new, Append(old, new[Len(new)]))]_vars

\* C24's case: a session with a full history was loaded and a question and
\* its answer were appended; the two oldest messages went, and the others
\* are as they were in the file.
C24_Witness ==
    /\ loaded # NoLoad
    /\ loaded.returned.ok
    /\ currentSession # NoSession
    /\ currentSession.id = loaded.id
    /\ Len(appended.messages) = 2
    /\ Len(currentSession.messages) = 2 * MAX_HISTORY_TURNS
    /\ currentSession.messages =
          Drop(loaded.returned.value.messages, 2) \o appended.messages

(***************************************************************************)
(* The program streaming one greeting that is a table of three columns,    *)
(* some of its cells empty.                                                *)
(***************************************************************************)
ROW_HEADER == <<"|", SP, "A", SP, "|", SP, "B", SP, "|", SP, "C", SP, "|">>
ROW_SEPARATOR == <<"|", "-", "-", "-", "|", "-", "-", "-", "|", "-", "-", "-", "|">>
ROW_FULL == <<"|", SP, "1", SP, "|", SP, "2", SP, "|", SP, "3", SP, "|">>
ROW_GAP == <<"|", SP, "1", SP, "|", SP, SP, "|", SP, "3", SP, "|">>

RowLines == {ROW_HEADER, ROW_SEPARATOR, ROW_FULL, ROW_GAP}

RowTexts ==
    {Join(ls, <<NL>>) : ls \in SeqsUpTo(RowLines, MaxTableLines) \ {<<>>}}

InitCells ==
    /\ Constructed
    /\ KnowledgeBaseNotLoaded
    /\ now = StartOfTime
    /\ disk = EmptyDir
    /\ env \in {RenderEnv(text) : text \in RowTexts}

SpecCells == InitCells /\ [][NextRender]_vars

\* The line of a printed table that shows row i of its rows: the header is
\* the third line, the data rows come after the border below it.
TableLineOfRow(i) == IF i = 1 THEN 3 ELSE 3 + i

\* C25: the parsing of a table row drops only the empty cells before the
\* first and after the last pipe; the cells between the pipes are kept, the
\* empty ones too, so that the cell in column k of a row of the text is shown
\* in column k of the table.
C25_CellsKeepTheirColumn ==
    [][StreamEnds /\ Includes(fullContent, <<PIPE>>) =>
          LET block == Split(fullContent, <<NL>>)
              rows == NonSeparatorRows(block)
              out == Split(Reprinted(sink'), <<NL>>)
          IN  ( /\ Len(block) >= 2
                /\ \A i \in DOMAIN block : StartsWithPipe(block[i])
                /\ HasSeparatorRow(block)
                /\ Len(rows) >= 2 )
                =>
              /\ Len(out) = Len(rows) + 5
              /\ \A i \in DOMAIN rows :
                    LET cells == CellsBetweenBars(out[TableLineOfRow(i)])
                    IN  \A k \in DOMAIN rows[i] :
                           k \in DOMAIN cells /\ cells[k] = rows[i][k]]_vars

\* How often a question is among the messages of a request, as a message of
\* the user.
TimesSent(sent, text) ==
    Cardinality({i \in DOMAIN sent : sent[i].role = USER /\ sent[i].content = text})

\* C26: the messages sent to the completion service for a turn are the
\* system instruction, then the recent messages the session held before the
\* turn, in their order, then the question of the turn, which is among them
\* once.
C26_QuerySentOnce ==
    [][(pc = "asking" /\ pc' # "asking") =>
          LET sent == request'.messages
              prior == Slice(before, 0 - RECENT_TURNS * 2)
          IN  /\ sent[1].role = SYSTEM
              /\ Tail(sent) =
                    [i \in DOMAIN prior |->
                        [role |-> prior[i].role, content |-> prior[i].content]]
                      \o <<[role |-> USER, content |-> question.text]>>
              /\ TimesSent(sent, question.text) = 1]_vars

\* C27: the messages of the current session come as a message of the user
\* followed by the reply of the assistant: no two neighbours have the same
\* role, after failed turns and after the greeting too.
C27_RolesAlternate ==
    currentSession # NoSession =>
        \A i \in 1..(Len(currentSession.messages) - 1) :
            currentSession.messages[i].role # currentSession.messages[i + 1].role

\* The file of the session deleted last is absent, and its id is not in the
\* listing.
DeletedIsGone ==
    /\ deleted.id \notin DOMAIN disk
    /\ \A i \in DOMAIN sessions : sessions[i] # deleted.id

\* C28: once deleteSession has returned true for a session that was not the
\* current one, its file stays absent and its id out of the listing for as
\* long as no session of that id is created, also when a write that
\* addMessage started for it had not completed when it was deleted.
C28_DeletedStaysDeleted ==
    [][( /\ deleted # NoCall
         /\ deleted' = deleted
         /\ deleted.returned
         /\ ~deleted.current
         /\ ~IsCurrent(deleted.id)
         /\ DeletedIsGone ) => DeletedIsGone']_vars

\* The messages a write of saveSession carries are all among the messages
\* of a session, in their order and next to each other at its end.
HoldsMessagesOf(session, w) ==
    \E k \in 0..Len(w.session.messages) :
        IsSuffixOf(Drop(w.session.messages, k), session.messages)
        /\ k <= Max(Len(w.session.messages) - 2 * MAX_HISTORY_TURNS, 0)

\* C29: a loadSession of an id yields a session that holds every message
\* appended to that session before the load, also when the write that the
\* last addMessage started has not completed when the file is read.
C29_LoadSeesEveryAppend ==
    [][(loaded' # loaded /\ loaded' # NoLoad) =>
          \A w \in pending :
              (w.id = loaded'.id /\ ~w.awaited) =>
                  /\ loaded'.returned.ok
                  /\ HoldsMessagesOf(loaded'.returned.value, w)]_vars

\* C30: createChunks returns no empty chunk, whatever the text and the
\* chunkSize of at least 1, and no chunk at all for a text that is empty or
\* holds only whitespace.
C30_NoEmptyChunk ==
    kbLoaded =>
        /\ \A i \in DOMAIN chunks : Len(chunks[i]) >= 1
        /\ Trim(knowledgeBase) = <<>> => chunks = <<>>

=============================================================================
